---- MODULE Spec2Model ----
(***************************************************************************)
(* Model of the sol-msg client (cli/src/index.ts): the account decoding    *)
(* (_fetchAccountData), the instruction filter, the message extractor, the *)
(* history reconstruction (_fetchNewMessages) and the live-tail change     *)
(* tracker (monitorPdaUpdates).                                            *)
(*                                                                         *)
(* Specifications: DecodeSpec decodes accounts drawn from a pool of bytes; *)
(* ReadSpec is a read command over a short ledger, one step per await;     *)
(* LimitSpec is the read over ledgers longer than the reference limit;     *)
(* TailSpec is the live tail under appends, the closing of the account,    *)
(* failing requests and the interrupt; TouchSpec is the live tail of an    *)
(* account that is also notified without a change of its counter.          *)
(*                                                                         *)
(* Buffers are sequences of bytes (0..255), offsets are 0-based as in the  *)
(* source and translated to the 1-based sequences of TLA+ inside the       *)
(* buffer operators. The ledger is the list of transactions that touched   *)
(* the account, newest first, as getSignaturesForAddress lists them.       *)
(***************************************************************************)
EXTENDS Integers, Sequences, FiniteSets, TLC

VARIABLES
    kind,          \* metadata.type: "thread" or "channel"
    cipher,        \* a message on its way through encryptMessage/decryptMessage
    sends,         \* the runs of the send commands: where each is, its index
    history,       \* the ledger: transactions of the account, newest first
    call,          \* the _fetchNewMessages invocation of the read path
    account,       \* the account on the ledger: present or not, its bytes
    metadata,      \* what a command has decoded of the account
    tracker,       \* state of monitorPdaUpdates
    listener,      \* the onAccountChange subscription of monitorPdaUpdates
    initialCount,  \* the last-observed counter of monitorPdaUpdates
    notifications, \* account changes pushed and not yet delivered
    handlers,      \* onAccountChange callbacks started and not finished
    diffs,         \* the diffs the callbacks have completed, in order
    failures,      \* requests of the callbacks that have failed so far
    touches        \* account changes so far that left the counter alone

vars == <<kind, cipher, sends, history, call, account, metadata, tracker, listener,
          initialCount, notifications, handlers, diffs, failures, touches>>

tailVars == <<account, tracker, listener, initialCount, notifications,
              handlers, diffs, failures, touches>>

----------------------------------------------------------------------------
(* Bounds of the model *)

MaxIndex == 2      \* message indices 0..MaxIndex occur in the payloads
MaxWindow == 2     \* transactions in the ledger of the read path
MaxAppends == 2    \* appends the program executes while the account is tailed
MaxFailures == 1   \* requests of the live tail that the ledger client fails
MaxTouches == 1    \* changes of the tailed account that leave its counter alone

----------------------------------------------------------------------------
(* Constants of the program *)

PROGRAM_ID == "9tN5NBvynubfJwQWDqrSoHEE3Xy2MVj3BmHdLu13wCcS"

OTHER_PROGRAM == "11111111111111111111111111111111"

DISCRIMINATORS ==
    [ initializeThread  |-> <<207, 78, 91, 185, 87, 244, 142, 11>>,
      sendMessage       |-> <<57, 40, 34, 178, 189, 10, 65, 26>>,
      initializeChannel |-> <<232, 91, 177, 212, 122, 94, 227, 250>>,
      sendBroadcast     |-> <<233, 241, 72, 77, 151, 147, 32, 89>>,
      subscribeChannel  |-> <<202, 151, 140, 36, 39, 223, 108, 177>>,
      closeThread       |-> <<53, 231, 16, 49, 247, 101, 109, 11>>,
      closeChannel      |-> <<0, 104, 36, 1, 66, 0, 103, 157>> ]

SigLimit == 1000   \* getSignaturesForAddress(..., { limit: 1000 })

BlockLen == 16     \* block size of aes-256-cbc

Kinds == {"thread", "channel"}

----------------------------------------------------------------------------
(* Buffer operations *)

Min(a, b) == IF a < b THEN a ELSE b

\* Buffer.slice(from, to) / subarray: clamps to the buffer, never throws
Slice(buf, from, to) ==
    IF from >= Min(to, Len(buf)) THEN <<>>
    ELSE SubSeq(buf, from + 1, Min(to, Len(buf)))

\* Buffer.readUInt32LE(off) throws a RangeError when off + 4 > length
CanReadUInt32LE(buf, off) == off + 4 <= Len(buf)

\* the four bytes read most significant first
ReadUInt32LE_BigEndian(buf, off) ==
    16777216 * buf[off + 1] + 65536 * buf[off + 2] + 256 * buf[off + 3]
        + buf[off + 4]

ReadUInt32LE(buf, off) ==
    buf[off + 1] + 256 * buf[off + 2] + 65536 * buf[off + 3]
        + 16777216 * buf[off + 4]

\* Buffer.from(new Uint32Array([n]).buffer): n as u32, little endian
U32LE(n) ==
    << n % 256, (n \div 256) % 256, (n \div 65536) % 256,
       (n \div 16777216) % 256 >>

RECURSIVE Repeat(_, _)
Repeat(b, n) == IF n <= 0 THEN <<>> ELSE <<b>> \o Repeat(b, n - 1)

\* Buffer.from(string, "utf8"): a string is a sequence of code points; the
\* strings of the model have code points below 2048, of one or two bytes
RECURSIVE Utf8Bytes(_)
Utf8Bytes(str) ==
    IF str = <<>> THEN <<>>
    ELSE (IF Head(str) < 128 THEN << Head(str) >>
          ELSE << 192 + (Head(str) \div 64), 128 + (Head(str) % 64) >>)
         \o Utf8Bytes(Tail(str))

\* Buffer.toString("utf8"): a byte below 128 is its character, a lead byte
\* of a two-byte sequence with its continuation byte is one character, and
\* a byte that starts neither decodes to U+FFFD
RECURSIVE Utf8ToString(_)
Utf8ToString(bytes) ==
    IF bytes = <<>> THEN <<>>
    ELSE IF bytes[1] < 128
    THEN << bytes[1] >> \o Utf8ToString(Tail(bytes))
    ELSE IF /\ bytes[1] >= 194
            /\ bytes[1] <= 223
            /\ Len(bytes) >= 2
            /\ bytes[2] >= 128
            /\ bytes[2] <= 191
    THEN << (bytes[1] - 192) * 64 + (bytes[2] - 128) >>
         \o Utf8ToString(Tail(Tail(bytes)))
    ELSE << 65533 >> \o Utf8ToString(Tail(bytes))

----------------------------------------------------------------------------
(* The cipher collaborator: aes-256-cbc, key derived from the secret, zero  *)
(* IV, PKCS#7 padding.  The block transformation is a keyed byte            *)
(* substitution; padding, block-length and padding checks are those of the  *)
(* cipher mode.                                                             *)

Secrets == {"k1", "k2", "k3"}

\* crypto.scryptSync(sharedSecret, "salt", 32), reduced to one byte
DeriveKey(sharedSecret) ==
    IF sharedSecret = "k1" THEN 101
    ELSE IF sharedSecret = "k2" THEN 199
    ELSE IF sharedSecret = "default-secret-key" THEN 57
    ELSE IF sharedSecret = "default-channel-key" THEN 58
    ELSE 102

Pad(msg) ==
    LET p == BlockLen - (Len(msg) % BlockLen) IN msg \o Repeat(p, p)

encryptMessage(message, sharedSecret) ==
    LET k == DeriveKey(sharedSecret)
        padded == Pad(Utf8Bytes(message))
    IN [i \in 1..Len(padded) |-> (padded[i] + k) % 256]

DecryptBytes(encrypted, sharedSecret) ==
    LET k == DeriveKey(sharedSecret)
    IN [i \in 1..Len(encrypted) |-> (encrypted[i] + 256 - k) % 256]

\* decipher.final() accepts the data: whole blocks and a valid padding
DecryptOk(encrypted, sharedSecret) ==
    /\ Len(encrypted) > 0
    /\ Len(encrypted) % BlockLen = 0
    /\ LET plain == DecryptBytes(encrypted, sharedSecret)
           p == plain[Len(plain)]
       IN /\ p >= 1
          /\ p <= BlockLen
          /\ \A i \in (Len(plain) - p + 1)..Len(plain) : plain[i] = p

\* the plaintext, defined when DecryptOk; decryptMessage throws otherwise
decryptMessage(encrypted, sharedSecret) ==
    LET plain == DecryptBytes(encrypted, sharedSecret)
    IN Utf8ToString(SubSeq(plain, 1, Len(plain) - plain[Len(plain)]))

\* the messages put through the cipher: empty, shorter than a block (one
\* with a character of two bytes), a block less one byte, a whole block,
\* more than a block
Messages ==
    { <<>>, <<15>>, <<65>>, <<72, 233>>, Repeat(66, BlockLen - 1),
      Repeat(67, BlockLen), Repeat(68, BlockLen + 1) }

\* the wallets of the send commands that run side by side
Wallets == {"alice", "bob"}

\* no send command has started
NoSends ==
    [ w \in Wallets |-> [ pc |-> "idle", messageCount |-> 0, sent |-> 0 ] ]

NoCipher ==
    [ status |-> "none", message |-> <<>>, sender |-> "k1",
      reader |-> "k1", encrypted |-> <<>>, output |-> <<>> ]

\* a sender with its secret has a message for a reader with its own
CipherInit ==
    /\ cipher \in { [ NoCipher EXCEPT !.status = "plain", !.message = m,
                                        !.sender = s1, !.reader = s2 ] :
                       m \in Messages, s1 \in Secrets, s2 \in Secrets }
    /\ kind = "thread"
    /\ sends = NoSends
    /\ history = <<>>
    /\ call = [ pc |-> "idle", startingIndex |-> 0, sharedSecret |-> "k1",
                signatures |-> <<>>, pos |-> 0, skipped |-> {},
                messages |-> <<>>, result |-> <<>> ]
    /\ account = [ exists |-> FALSE, data |-> <<>> ]
    /\ metadata = [ status |-> "none", error |-> "", participantA |-> <<>>,
                    participantB |-> <<>>, owner |-> <<>>,
                    channelName |-> <<>>, messageCount |-> 0 ]
    /\ tracker = "Idle"
    /\ listener = "none"
    /\ initialCount = 0
    /\ notifications = <<>>
    /\ handlers = <<>>
    /\ diffs = <<>>
    /\ failures = 0
    /\ touches = 0

\* the sender calls encryptMessage
Encrypt ==
    /\ cipher.status = "plain"
    /\ cipher' = [ cipher EXCEPT
                     !.status = "encrypted",
                     !.encrypted = encryptMessage(cipher.message,
                                                  cipher.sender) ]
    /\ UNCHANGED <<kind, sends, history, call, tailVars, metadata>>

\* the reader calls decryptMessage: the string, or the error thrown
Decrypt ==
    /\ cipher.status = "encrypted"
    /\ cipher' =
         IF DecryptOk(cipher.encrypted, cipher.reader)
         THEN [ cipher EXCEPT
                  !.status = "decrypted",
                  !.output = decryptMessage(cipher.encrypted, cipher.reader) ]
         ELSE [ cipher EXCEPT !.status = "failed" ]
    /\ UNCHANGED <<kind, sends, history, call, tailVars, metadata>>

CipherNext == Encrypt \/ Decrypt

CipherSpec == CipherInit /\ [][CipherNext]_vars

----------------------------------------------------------------------------
(* Transactions of the ledger *)

PDA == "pda"

Senders == {"alice", "bob", "carol"}

\* the discriminator of sendMessage stored for either kind
MetadataDiscriminator_AlwaysThread(type) == DISCRIMINATORS.sendMessage

\* the discriminator _fetchAccountData stores in the metadata of each kind
MetadataDiscriminator(type) ==
    IF type = "thread" THEN DISCRIMINATORS.sendMessage
    ELSE DISCRIMINATORS.sendBroadcast

\* the counter offset _fetchAccountData stores in the metadata of each kind
\* the counter of a channel looked for right after a name of 4 bytes
MessageCountOffset_AfterName(type) == IF type = "thread" THEN 104 ELSE 48

MessageCountOffset(type) == IF type = "thread" THEN 104 ELSE 76

OtherKind(type) == IF type = "thread" THEN "channel" ELSE "thread"

\* the plaintext sent with index i
Msg(i) == <<65 + i>>

\* the discriminator the send and broadcast commands put first in their
\* instruction data
AppendDiscriminator(type) ==
    IF type = "thread" THEN DISCRIMINATORS.sendMessage
    ELSE DISCRIMINATORS.sendBroadcast

\* the two u32 fields of the payload exchanged
AppendPayload_LengthFirst(type, messageCount, encrypted) ==
    AppendDiscriminator(type) \o U32LE(Len(encrypted))
        \o U32LE(messageCount) \o encrypted

\* send / send-broadcast: discriminator, index, content length, ciphertext
AppendPayload(type, messageCount, encrypted) ==
    AppendDiscriminator(type) \o U32LE(messageCount)
        \o U32LE(Len(encrypted)) \o encrypted

\* a compiled instruction: indices into the static account keys
Ix(programIdIndex, accountKeyIndexes, data) ==
    [ programIdIndex |-> programIdIndex,
      accountKeyIndexes |-> accountKeyIndexes,
      data |-> data ]

\* the instruction send builds: keys [pda, wallet], program PROGRAM_ID
SendIx(type, messageCount, message, sharedSecret) ==
    Ix(2, <<0, 1>>,
       AppendPayload(type, messageCount, encryptMessage(message, sharedSecret)))

Tx(sender, instructions) ==
    [ staticAccountKeys |-> <<PDA, sender, PROGRAM_ID, OTHER_PROGRAM, "carol">>,
      compiledInstructions |-> instructions ]

\* an append whose declared content length exceeds the bytes that follow,
\* the bytes that follow being a whole ciphertext
OverLenIx(type, i) ==
    Ix(2, <<0, 1>>,
       AppendDiscriminator(type) \o U32LE(i) \o U32LE(2 * BlockLen)
           \o encryptMessage(Msg(i), "k1"))

\* an append cut in the middle of its ciphertext
TruncIx(type, i) ==
    Ix(2, <<0, 1>>,
       AppendDiscriminator(type) \o U32LE(i) \o U32LE(BlockLen)
           \o SubSeq(encryptMessage(Msg(i), "k1"), 1, BlockLen \div 2))

\* a tagged payload of n bytes, 8 <= n < 16: too short for its two fields
ShortIx(type, n) ==
    Ix(2, <<0, 1>>,
       SubSeq(AppendDiscriminator(type) \o U32LE(0) \o U32LE(BlockLen), 1, n))

\* an instruction of another operation of the program (initialize,
\* subscribe, close) whose bytes after the discriminator read as the
\* fields and the ciphertext of an append of index i
OtherOpIx(discriminator, i) ==
    Ix(2, <<0, 1>>,
       discriminator \o U32LE(i) \o U32LE(BlockLen)
           \o encryptMessage(Msg(i), "k1"))

\* the transactions the ledger of the model is made of, for an account of
\* the given kind read with secret "k1"
TxPool(type) ==
    { Tx("alice", <<SendIx(type, i, Msg(i), "k1")>>) : i \in 0..MaxIndex }
    \cup
    { \* two appends in one transaction, higher index first, the second
      \* signed by another wallet of the transaction
      Tx("bob", << SendIx(type, 1, Msg(1), "k1"),
                   Ix(2, <<0, 4>>,
                      AppendPayload(type, 0, encryptMessage(<<90>>, "k1"))) >>),
      \* a readable append, appends that give no record (another secret,
      \* a ciphertext cut short, no sender among the keys), then readable
      \* ones
      Tx("bob", << SendIx(type, 1, Msg(1), "k1"),
                   SendIx(type, 0, Msg(0), "k2"),
                   TruncIx(type, 0),
                   Ix(2, <<0>>,
                      AppendPayload(type, 1, encryptMessage(Msg(1), "k1"))),
                   SendIx(type, 0, Msg(0), "k1"),
                   SendIx(type, 2, <<91>>, "k1") >>),
      \* a payload too short for the index field, then a readable append
      Tx("alice", << ShortIx(type, 10), SendIx(type, 0, Msg(0), "k1") >>),
      \* a readable append, then a payload too short for the length field
      Tx("alice", << SendIx(type, 1, Msg(1), "k1"), ShortIx(type, 14) >>),
      \* declared content length larger than the bytes present
      Tx("bob", << OverLenIx(type, 1) >>),
      \* instructions the filter passes over (the append of the other
      \* kind, another program, a bare tag, the other operations of the
      \* program), then a readable append
      Tx("bob", << SendIx(OtherKind(type), 0, Msg(0), "k1"),
                   Ix(3, <<0, 1>>,
                      AppendPayload(type, 0, encryptMessage(Msg(0), "k1"))),
                   ShortIx(type, 8),
                   OtherOpIx(IF type = "thread"
                             THEN DISCRIMINATORS.initializeThread
                             ELSE DISCRIMINATORS.initializeChannel, 0),
                   OtherOpIx(DISCRIMINATORS.subscribeChannel, 1),
                   OtherOpIx(IF type = "thread"
                             THEN DISCRIMINATORS.closeThread
                             ELSE DISCRIMINATORS.closeChannel, 0),
                   SendIx(type, 2, Msg(2), "k1") >>) }

\* the ledger gives each transaction its signature and block time; the
\* oldest transaction has signature 1
Stamp(txs) ==
    [ i \in 1..Len(txs) |->
        [ signature |-> Len(txs) - i + 1,
          blockTime |-> 10 * (Len(txs) - i + 1),
          transaction |-> txs[i] ] ]

RECURSIVE SeqsUpTo(_, _)
SeqsUpTo(S, n) ==
    IF n = 0 THEN { <<>> }
    ELSE LET shorter == SeqsUpTo(S, n - 1)
         IN shorter \cup { <<x>> \o s : x \in S, s \in { t \in shorter : Len(t) = n - 1 } }

----------------------------------------------------------------------------
(* Instruction filter and message extractor: the body of the instruction    *)
(* loop of _fetchNewMessages.  The outcome of one instruction is the        *)
(* records it pushes and whether it throws out of the loop.                 *)

Outcome(pushed, thrown) == [ pushed |-> pushed, thrown |-> thrown ]

\* message.staticAccountKeys[ix.accountKeyIndexes[1]] is defined
SenderDefined(tx, ix) ==
    /\ Len(ix.accountKeyIndexes) >= 2
    /\ ix.accountKeyIndexes[2] + 1 <= Len(tx.staticAccountKeys)

\* ixData.length >= 8: a payload that is the bare discriminator matches
MatchesFilter_AtLeastTag(tx, ix, DISCRIMINATOR) ==
    /\ tx.staticAccountKeys[ix.programIdIndex + 1] = PROGRAM_ID
    /\ Len(ix.data) >= 8
    /\ Slice(ix.data, 0, 8) = DISCRIMINATOR

\* the filter of the instruction loop: program and discriminator check
MatchesFilter(tx, ix, DISCRIMINATOR) ==
    /\ tx.staticAccountKeys[ix.programIdIndex + 1] = PROGRAM_ID
    /\ Len(ix.data) > 8
    /\ Slice(ix.data, 0, 8) = DISCRIMINATOR

\* "Only process messages that are new": the previous counter is kept out
IsNew_Strict(messageIndex, startingIndex) == messageIndex > startingIndex

IsNew(messageIndex, startingIndex) == messageIndex >= startingIndex

\* a failed decryption leaving the instruction loop of its transaction
DecryptFailure_Rethrown == Outcome(<<>>, TRUE)

\* the catch around decryptMessage: the record is dropped, the loop goes on
DecryptFailure == Outcome(<<>>, FALSE)

\* the sender read from the account list of the first instruction of the
\* transaction
SenderOf_FirstInstruction(tx, ix) ==
    tx.staticAccountKeys[tx.compiledInstructions[1].accountKeyIndexes[2] + 1]

\* "Sender is key 1 in the instruction's account list"
SenderOf(tx, ix) == tx.staticAccountKeys[ix.accountKeyIndexes[2] + 1]

ProcessIx(sigInfo, ix, DISCRIMINATOR, sharedSecret, startingIndex) ==
    LET tx == sigInfo.transaction
        ixData == ix.data
    IN IF ~MatchesFilter(tx, ix, DISCRIMINATOR) THEN Outcome(<<>>, FALSE)
       ELSE IF ~CanReadUInt32LE(ixData, 8) THEN Outcome(<<>>, TRUE)
       ELSE IF ~CanReadUInt32LE(ixData, 12) THEN Outcome(<<>>, TRUE)
       ELSE LET messageIndex == ReadUInt32LE(ixData, 8)
                contentLength == ReadUInt32LE(ixData, 12)
                encrypted == Slice(ixData, 16, 16 + contentLength)
            IN IF ~IsNew(messageIndex, startingIndex) THEN Outcome(<<>>, FALSE)
               ELSE IF ~DecryptOk(encrypted, sharedSecret) THEN DecryptFailure
               ELSE IF ~SenderDefined(tx, ix) THEN Outcome(<<>>, FALSE)
               ELSE Outcome(
                      << [ index |-> messageIndex,
                           sender |-> SenderOf(tx, ix),
                           content |-> decryptMessage(encrypted, sharedSecret),
                           timestamp |-> sigInfo.blockTime,
                           signature |-> sigInfo.signature ] >>,
                      FALSE)

\* the instruction loop from instruction n on; a throw leaves the loop and
\* is caught by the try around the transaction, the records already pushed
\* stay in the array
RECURSIVE ProcessIxsFrom(_, _, _, _, _)
ProcessIxsFrom(sigInfo, n, DISCRIMINATOR, sharedSecret, startingIndex) ==
    LET ixs == sigInfo.transaction.compiledInstructions
    IN IF n > Len(ixs) THEN <<>>
       ELSE LET o == ProcessIx(sigInfo, ixs[n], DISCRIMINATOR, sharedSecret,
                               startingIndex)
            IN IF o.thrown THEN o.pushed
               ELSE o.pushed \o ProcessIxsFrom(sigInfo, n + 1, DISCRIMINATOR,
                                               sharedSecret, startingIndex)

\* the records pushed for one fetched transaction
ProcessTx(sigInfo, DISCRIMINATOR, sharedSecret, startingIndex) ==
    ProcessIxsFrom(sigInfo, 1, DISCRIMINATOR, sharedSecret, startingIndex)

\* the comparator with its operands exchanged: descending order
RECURSIVE InsertByIndex_Descending(_, _)
InsertByIndex_Descending(sorted, m) ==
    IF sorted = <<>> THEN <<m>>
    ELSE IF m.index - sorted[Len(sorted)].index <= 0 THEN Append(sorted, m)
    ELSE Append(InsertByIndex_Descending(SubSeq(sorted, 1, Len(sorted) - 1), m),
                sorted[Len(sorted)])

\* messages.sort((a, b) => a.index - b.index): a stable sort
RECURSIVE InsertByIndex(_, _)
InsertByIndex(sorted, m) ==
    IF sorted = <<>> THEN <<m>>
    ELSE IF sorted[Len(sorted)].index - m.index <= 0 THEN Append(sorted, m)
    ELSE Append(InsertByIndex(SubSeq(sorted, 1, Len(sorted) - 1), m),
                sorted[Len(sorted)])

\* the array returned as the scan left it
SortByIndex_Unsorted(messages) == messages

\* the sorted prefix is bound once, so that the sort is evaluated in a
\* number of steps linear in the length of the array
RECURSIVE SortByIndex(_)
SortByIndex(messages) ==
    IF messages = <<>> THEN <<>>
    ELSE CHOOSE r \in { InsertByIndex(sorted, messages[Len(messages)]) :
                          sorted \in { SortByIndex(SubSeq(messages, 1,
                                                   Len(messages) - 1)) } } :
           TRUE

----------------------------------------------------------------------------
(* One invocation of _fetchNewMessages.  It suspends at the request for    *)
(* the signatures and at the request for each transaction; the instruction *)
(* loop, the sort and the return are synchronous.                          *)

\* every reference of the ledger, whatever the limit
Take_All(s, n) == s

Take(s, n) == SubSeq(s, 1, Min(n, Len(s)))

NoCall ==
    [ pc |-> "idle", startingIndex |-> 0, sharedSecret |-> "k1",
      signatures |-> <<>>, pos |-> 0, skipped |-> {}, messages |-> <<>>,
      result |-> <<>> ]

\* the call is made: getSignaturesForAddress is awaited
NewCall(sharedSecret, startingIndex) ==
    [ NoCall EXCEPT !.pc = "sigs", !.startingIndex = startingIndex,
                    !.sharedSecret = sharedSecret ]

\* the loop is over: sort and return
CallReturn(c) ==
    [ c EXCEPT !.pc = "returned", !.result = SortByIndex(c.messages) ]

\* the loop reaches position pos: await getTransaction, or leave the loop
CallAt(c, pos) ==
    IF pos > Len(c.signatures) THEN CallReturn([c EXCEPT !.pos = pos])
    ELSE [ c EXCEPT !.pc = "scan", !.pos = pos ]

\* getSignaturesForAddress resolves with at most SigLimit references
CallSignatures(c, ledger) ==
    CallAt([ c EXCEPT !.signatures = Take(ledger, SigLimit) ], 1)

\* getSignaturesForAddress rejects: the call throws to its caller
CallSignaturesFail(c) == [ c EXCEPT !.pc = "threw" ]

\* getTransaction resolves with the transaction
CallFetched(c, DISCRIMINATOR) ==
    CallAt([ c EXCEPT !.messages =
                @ \o ProcessTx(c.signatures[c.pos], DISCRIMINATOR,
                               c.sharedSecret, c.startingIndex) ],
           c.pos + 1)

\* a failed fetch ending the loop instead of skipping the reference
CallSkipped_Abort(c) ==
    CallReturn([ c EXCEPT !.skipped = @ \cup {c.pos} ])

\* getTransaction resolves with null (continue) or rejects (catch): the
\* reference is skipped
CallSkipped(c) ==
    CallAt([ c EXCEPT !.skipped = @ \cup {c.pos} ], c.pos + 1)

\* the whole scan as a function of the references, of the set of positions
\* whose fetch failed, and of the arguments of the call
\* the records pushed from position lo to position hi, in the order of the
\* positions; the range is halved so that a window of SigLimit references
\* is evaluated at a small depth
RECURSIVE ScanBetween(_, _, _, _, _, _, _)
ScanBetween(signatures, lo, hi, skipped, DISCRIMINATOR, secret, k) ==
    IF lo > hi THEN <<>>
    ELSE IF lo = hi
    THEN IF lo \in skipped THEN <<>>
         ELSE ProcessTx(signatures[lo], DISCRIMINATOR, secret, k)
    ELSE LET mid == (lo + hi) \div 2
         IN ScanBetween(signatures, lo, mid, skipped, DISCRIMINATOR,
                        secret, k)
            \o ScanBetween(signatures, mid + 1, hi, skipped, DISCRIMINATOR,
                           secret, k)

ScanFrom(signatures, n, skipped, DISCRIMINATOR, sharedSecret, startingIndex) ==
    ScanBetween(signatures, n, Len(signatures), skipped, DISCRIMINATOR,
                sharedSecret, startingIndex)

\* the loop from the first reference to the last, the fetches of the
\* positions in skipped failing: the transactions are immutable and the
\* array is local to the call, so the steps of the loop commute with
\* every step outside the call
CallScanned(c, skipped, DISCRIMINATOR) ==
    CallReturn([ c EXCEPT !.messages =
                            ScanFrom(c.signatures, 1, skipped, DISCRIMINATOR,
                                     c.sharedSecret, c.startingIndex),
                          !.skipped = skipped,
                          !.pos = Len(c.signatures) + 1 ])

fetchNewMessages(ledger, skipped, DISCRIMINATOR, sharedSecret, startingIndex) ==
    SortByIndex(ScanFrom(Take(ledger, SigLimit), 1, skipped, DISCRIMINATOR,
                         sharedSecret, startingIndex))

----------------------------------------------------------------------------
(* The account on the ledger *)

\* MessageThread: 8 (disc) + 32 (A) + 32 (B) + 32 (ID) + 4 (count)
ThreadAccountData(count) ==
    Repeat(0, 8) \o Repeat(1, 32) \o Repeat(2, 32) \o Repeat(3, 32)
        \o U32LE(count)

\* BroadcastChannel: 8 (disc) + 32 (owner) + 4 (name len) + name, the count
\* at 76 (32 bytes reserved for the name)
ChannelAccountData(name, count) ==
    Repeat(0, 8) \o Repeat(1, 32) \o U32LE(Len(name)) \o name
        \o Repeat(0, 32 - Len(name)) \o U32LE(count)

ChannelName == <<84, 101, 115, 116>>

AccountData(type, count) ==
    IF type = "thread" THEN ThreadAccountData(count)
    ELSE ChannelAccountData(ChannelName, count)

NoAccount == [ exists |-> FALSE, data |-> <<>> ]

\* new PublicKey(bytes) throws unless it is given 32 bytes
IsPublicKey(bytes) == Len(bytes) = 32

NoMetadata ==
    [ status |-> "none", error |-> "", participantA |-> <<>>,
      participantB |-> <<>>, owner |-> <<>>, channelName |-> <<>>,
      messageCount |-> 0 ]

Thrown(error) == [ NoMetadata EXCEPT !.status = "threw", !.error = error ]

NotFoundMessage(type) ==
    IF type = "thread"
    THEN "Thread not found. Invalid PDA or account doesn't exist."
    ELSE "Channel not found. Invalid PDA or account doesn't exist."

\* a null check that lets every answer of getAccountInfo through
Found_Always(accountInfo) == TRUE

\* getAccountInfo resolved with an account: if (!accountInfo) throw
Found(accountInfo) == accountInfo.exists

\* _fetchAccountData: the metadata it returns, or the error it throws
fetchAccountData(accountInfo, type) ==
    LET data == accountInfo.data IN
    IF ~Found(accountInfo) THEN Thrown(NotFoundMessage(type))
    ELSE IF ~IsPublicKey(Slice(data, 8, 40))
    THEN Thrown("Invalid public key input")
    ELSE IF type = "thread"
    THEN IF ~IsPublicKey(Slice(data, 40, 72))
         THEN Thrown("Invalid public key input")
         ELSE [ NoMetadata EXCEPT !.status = "ok",
                                  !.participantA = Slice(data, 8, 40),
                                  !.participantB = Slice(data, 40, 72) ]
    ELSE IF ~CanReadUInt32LE(data, 40) THEN Thrown("ERR_OUT_OF_RANGE")
         ELSE [ NoMetadata EXCEPT
                  !.status = "ok",
                  !.owner = Slice(data, 8, 40),
                  !.channelName =
                     Utf8ToString(Slice(data, 44,
                                        44 + ReadUInt32LE(data, 40))) ]

\* a command's use of _fetchAccountData: the metadata, then
\* accountData.readUInt32LE(metadata.messageCountOffset)
DecodeAccount(accountInfo, type) ==
    LET m == fetchAccountData(accountInfo, type) IN
    IF m.status # "ok" THEN m
    ELSE IF ~CanReadUInt32LE(accountInfo.data, MessageCountOffset(type))
    THEN Thrown("ERR_OUT_OF_RANGE")
    ELSE [ m EXCEPT !.messageCount =
                      ReadUInt32LE(accountInfo.data,
                                   MessageCountOffset(type)) ]

----------------------------------------------------------------------------
(* Decoding the bytes of an account: a command fetches the account and     *)
(* decodes it before anything else.                                        *)

MaxNameLen == 32   \* "assuming max 32 bytes for name"

Counts == {0, 1, 5, 256, 65541}

NameOfLen(n) == [ i \in 1..n |-> 64 + i ]

\* BroadcastChannel with the count right after the name and the reserved
\* bytes behind it
PackedChannelAccountData(name, count) ==
    Repeat(0, 8) \o Repeat(1, 32) \o U32LE(Len(name)) \o name
        \o U32LE(count) \o Repeat(0, MaxNameLen - Len(name))

CutPoints == {0, 7, 8, 39, 40, 43, 44, 71, 72, 75, 76, 79, 103, 104, 107}

Present(data) == [ exists |-> TRUE, data |-> data ]

\* accounts a command can be pointed at: none, whole accounts of the
\* expected kind, and accounts whose bytes end early
AccountPool(type) ==
    {NoAccount}
    \cup { Present(Take(AccountData(type, 5), c)) :
             c \in { c \in CutPoints : c < Len(AccountData(type, 5)) } }
    \cup IF type = "thread"
         THEN { Present(ThreadAccountData(n)) : n \in Counts }
         ELSE { Present(ChannelAccountData(NameOfLen(l), n)) :
                  l \in 0..MaxNameLen, n \in Counts }
              \cup { Present(PackedChannelAccountData(NameOfLen(l), n)) :
                       l \in 0..MaxNameLen, n \in Counts }

DecodeInit ==
    /\ kind \in Kinds
    /\ cipher = NoCipher
    /\ sends = NoSends
    /\ history = <<>>
    /\ call = NoCall
    /\ account \in AccountPool(kind)
    /\ metadata = NoMetadata
    /\ tracker = "Idle"
    /\ listener = "none"
    /\ initialCount = 0
    /\ notifications = <<>>
    /\ handlers = <<>>
    /\ diffs = <<>>
    /\ failures = 0
    /\ touches = 0

\* await _fetchAccountData(...); accountData.readUInt32LE(...)
FetchAccount ==
    /\ metadata.status = "none"
    /\ metadata' = DecodeAccount(account, kind)
    /\ UNCHANGED <<kind, cipher, sends, history, call, tailVars>>

DecodeSpec == DecodeInit /\ [][FetchAccount]_vars

----------------------------------------------------------------------------
(* The read path: _fetchNewMessages over a ledger *)

ReadInit ==
    /\ kind \in Kinds
    /\ cipher = NoCipher
    /\ sends = NoSends
    /\ history \in { Stamp(w) : w \in SeqsUpTo(TxPool(kind), MaxWindow) }
    /\ call = NoCall
    /\ account \in { NoAccount, Present(AccountData(kind, Len(history))) }
    /\ metadata = NoMetadata
    /\ tracker = "Idle"
    /\ listener = "none"
    /\ initialCount = 0
    /\ notifications = <<>>
    /\ handlers = <<>>
    /\ diffs = <<>>
    /\ failures = 0
    /\ touches = 0

\* a command that goes on after the error of its metadata fetch
Proceeds_AfterError(m) == m.status # "none"

\* the command reaches the statement after the metadata fetch: an error
\* thrown by the fetch leaves the try block
Proceeds(m) == m.status = "ok"

ReadStart ==
    /\ Proceeds(metadata)
    /\ call.pc = "idle"
    /\ \E k \in 0..MaxIndex : call' = NewCall("k1", k)
    /\ UNCHANGED <<kind, cipher, sends, history, metadata, tailVars>>

ReadSignatures ==
    /\ call.pc = "sigs"
    /\ call' = CallSignatures(call, history)
    /\ UNCHANGED <<kind, cipher, sends, history, metadata, tailVars>>

ReadSignaturesFail ==
    /\ call.pc = "sigs"
    /\ call' = CallSignaturesFail(call)
    /\ UNCHANGED <<kind, cipher, sends, history, metadata, tailVars>>

ReadFetched ==
    /\ call.pc = "scan"
    /\ call' = CallFetched(call, MetadataDiscriminator(kind))
    /\ UNCHANGED <<kind, cipher, sends, history, metadata, tailVars>>

ReadSkipped ==
    /\ call.pc = "scan"
    /\ call' = CallSkipped(call)
    /\ UNCHANGED <<kind, cipher, sends, history, metadata, tailVars>>

ReadNext ==
    \/ FetchAccount
    \/ ReadStart
    \/ ReadSignatures
    \/ ReadSignaturesFail
    \/ ReadFetched
    \/ ReadSkipped

ReadSpec == ReadInit /\ [][ReadNext]_vars

\* the read path, every awaited getTransaction of the loop settling: it
\* resolves or it rejects
ReadLiveSpec ==
    ReadInit /\ [][ReadNext]_vars /\ WF_vars(ReadSkipped \/ ReadFetched)

----------------------------------------------------------------------------
(* The read path over a ledger longer than the limit of                    *)
(* getSignaturesForAddress                                                 *)

\* a transaction that touches the account with an instruction of another
\* program
OtherTx == Tx("bob", << Ix(3, <<0, 1>>, <<2, 0, 0, 0>>) >>)

\* n transactions, newest first: the append of index 1 at place newer, the
\* append of index 0 at place older, transactions of another program
\* elsewhere
LongLedger(type, n, newer, older) ==
    [ i \in 1..n |->
        IF i = newer THEN Tx("alice", << SendIx(type, 1, Msg(1), "k1") >>)
        ELSE IF i = older THEN Tx("bob", << SendIx(type, 0, Msg(0), "k1") >>)
        ELSE OtherTx ]

LimitInit ==
    /\ kind \in Kinds
    /\ cipher = NoCipher
    /\ sends = NoSends
    /\ \E newer \in {1, SigLimit - 1, SigLimit},
          older \in {SigLimit, SigLimit + 1, SigLimit + 2} :
         /\ newer < older
         /\ \E n \in {older, older + 1} :
              history = Stamp(LongLedger(kind, n, newer, older))
    /\ call = NoCall
    /\ account = Present(AccountData(kind, 2))
    /\ metadata = NoMetadata
    /\ tracker = "Idle"
    /\ listener = "none"
    /\ initialCount = 0
    /\ notifications = <<>>
    /\ handlers = <<>>
    /\ diffs = <<>>
    /\ failures = 0
    /\ touches = 0

\* the loop of the call from the first reference to the last, every fetch
\* succeeding
ReadScanned ==
    /\ call.pc = "scan"
    /\ call.pos = 1
    /\ call' = CallScanned(call, {}, MetadataDiscriminator(kind))
    /\ UNCHANGED <<kind, cipher, sends, history, metadata, tailVars>>

LimitNext ==
    \/ FetchAccount
    \/ ReadStart
    \/ ReadSignatures
    \/ ReadScanned

LimitSpec == LimitInit /\ [][LimitNext]_vars

----------------------------------------------------------------------------
(* The live tail: monitorPdaUpdates.  Each delivered notification starts   *)
(* the async callback of onAccountChange; the callback runs to its first   *)
(* await, and its continuations run when the requests of its               *)
(* _fetchNewMessages call resolve; the requests for the transactions of    *)
(* one call are taken together.                                            *)

RemoveAt(s, i) == SubSeq(s, 1, i - 1) \o SubSeq(s, i + 1, Len(s))

\* what the callback prints of the records its call returned
Displayed(newMessages) ==
    IF Len(newMessages) > 0 THEN << newMessages[Len(newMessages)] >>
    ELSE <<>>

TailInit ==
    /\ kind \in Kinds
    /\ cipher = NoCipher
    /\ sends = NoSends
    /\ history = <<>>
    /\ call = NoCall
    /\ account \in { NoAccount, Present(AccountData(kind, 0)),
                     Present(Take(AccountData(kind, 0), 72)) }
    /\ metadata = NoMetadata
    /\ tracker = "Idle"
    /\ listener = "none"
    /\ initialCount = 0
    /\ notifications = <<>>
    /\ handlers = <<>>
    /\ diffs = <<>>
    /\ failures = 0
    /\ touches = 0

\* the process of the listen command has not exited
Alive == tracker \in {"Idle", "Subscribed", "Stopping"}

\* the ledger lists a transaction that touched the account
Executed(sender, instructions) ==
    history' = << [ signature |-> Len(history) + 1,
                    blockTime |-> 10 * (Len(history) + 1),
                    transaction |-> Tx(sender, instructions) ] >> \o history

\* subscribers are notified of a change of the account; two changes in one
\* slot give one notification
Notify(data) ==
    IF tracker = "Subscribed"
    THEN \/ notifications' = Append(notifications, data)
         \/ /\ notifications # <<>>
            /\ notifications' =
                 [ notifications EXCEPT ![Len(notifications)] = data ]
    ELSE UNCHANGED notifications

\* the counter held by the bytes of the account of the tail
Count(data) == ReadUInt32LE(data, MessageCountOffset(kind))

\* the program executes an append: the counter is incremented, the
\* transaction enters the history, subscribers are notified
ProgramAppend ==
    /\ Alive
    /\ account.exists
    /\ CanReadUInt32LE(account.data, MessageCountOffset(kind))
    /\ Count(account.data) < MaxAppends
    /\ LET n == Count(account.data)
           data == AccountData(kind, n + 1)
       IN /\ Executed(IF n % 2 = 0 THEN "alice" ELSE "bob",
                      << SendIx(kind, n, Msg(n), "k1") >>)
          /\ account' = Present(data)
          /\ Notify(data)
    /\ UNCHANGED <<kind, cipher, sends, call, metadata, tracker, listener, initialCount,
                   handlers, diffs, failures, touches>>

\* the account changes and its bytes do not (the runtime debits or credits
\* its lamports, no transaction is listed): subscribers are notified with
\* the same bytes
ProgramTouch ==
    /\ tracker = "Subscribed"
    /\ account.exists
    /\ touches < MaxTouches
    /\ touches' = touches + 1
    /\ notifications' = Append(notifications, account.data)
    /\ UNCHANGED <<kind, cipher, sends, history, call, account, metadata, tracker, listener,
                   initialCount, handlers, diffs, failures>>

\* the program closes the account (closeThread / closeChannel): the account
\* is gone and subscribers are notified with no bytes
ProgramClose ==
    /\ Alive
    /\ account.exists
    /\ Executed("alice",
                << Ix(2, <<0, 1>>,
                      IF kind = "thread" THEN DISCRIMINATORS.closeThread
                      ELSE DISCRIMINATORS.closeChannel) >>)
    /\ account' = NoAccount
    /\ Notify(<<>>)
    /\ UNCHANGED <<kind, cipher, sends, call, metadata, tracker, listener, initialCount,
                   handlers, diffs, failures, touches>>

\* a subscription created whatever the metadata fetch gave
ListenerRegistered_BeforeFetch(m) == TRUE

\* control reaches connection.onAccountChange: the metadata fetch and the
\* read of the counter before it did not throw
ListenerRegistered(m) == m.status = "ok"

\* the tail starting from index 0 whatever the account holds
SubscribeCount_Zero(m) == 0

\* let initialCount = data.readUInt32LE(metadata.messageCountOffset)
SubscribeCount(m) == m.messageCount

\* monitorPdaUpdates up to the registration of the callback, or to the
\* catch of its try block (process.exit(1))
Subscribe ==
    /\ tracker = "Idle"
    /\ metadata' = DecodeAccount(account, kind)
    /\ listener' = IF ListenerRegistered(metadata') THEN "registered"
                   ELSE "none"
    /\ tracker' = IF Proceeds(metadata') THEN "Subscribed" ELSE "Failed"
    /\ initialCount' = SubscribeCount(metadata')
    /\ UNCHANGED <<kind, cipher, sends, history, call, account, notifications, handlers,
                   diffs, failures, touches>>

\* if (newCount > initialCount) taken also when the counter is unchanged
CounterAdvanced_OrEqual(newCount, previous) == newCount >= previous

\* if (newCount > initialCount)
CounterAdvanced(newCount, previous) == newCount > previous

\* an empty result printed through console.error like a thrown call
Report_EmptyIsError(c) ==
    IF c.pc = "threw" \/ Len(c.result) = 0 THEN "error" ELSE "message"

\* how the callback reports the end of its call: the latest record, the
\* yellow "Could not find or decrypt new content" line of console.log, or
\* the red "Decryption/Fetch Error" line of console.error
Report(c) ==
    IF c.pc = "threw" THEN "error"
    ELSE IF Len(c.result) > 0 THEN "message"
    ELSE "soft"

\* the diff of a notification for which no call was made
NoDiff(outcome, newCount) ==
    [ outcome |-> outcome, previous |-> initialCount, newCount |-> newCount,
      minIndex |-> 0, result |-> <<>>, shown |-> <<>>, report |-> "none",
      counterAfter |-> initialCount ]

\* a notification is delivered: the callback runs to its first await.  The
\* read of the counter is outside the try block of the callback: when the
\* bytes are too short the promise of the callback is rejected and nothing
\* handles the rejection, which ends the process or is only reported,
\* depending on the runtime
Deliver ==
    /\ tracker = "Subscribed"
    /\ notifications # <<>>
    /\ LET updatedData == Head(notifications)
           offset == MessageCountOffset(kind)
       IN IF ~CanReadUInt32LE(updatedData, offset)
          THEN /\ diffs' = Append(diffs, NoDiff("fault", 0))
               /\ \/ /\ tracker' = "Crashed"
                     /\ notifications' = <<>>
                     /\ handlers' = <<>>
                  \/ /\ notifications' = Tail(notifications)
                     /\ UNCHANGED <<tracker, handlers>>
          ELSE LET newCount == ReadUInt32LE(updatedData, offset)
               IN /\ notifications' = Tail(notifications)
                  /\ UNCHANGED tracker
                  /\ IF CounterAdvanced(newCount, initialCount)
                     THEN /\ handlers' = Append(handlers,
                                [ newCount |-> newCount,
                                  previous |-> initialCount,
                                  call |-> NewCall("k1", initialCount) ])
                          /\ UNCHANGED diffs
                     ELSE /\ diffs' = Append(diffs, NoDiff("noop", newCount))
                          /\ UNCHANGED handlers
    /\ UNCHANGED <<kind, cipher, sends, history, call, account, metadata, listener,
                   initialCount, failures, touches>>

\* the new counter stored as soon as the call has its first answer, while
\* the call is still running
Continue_EagerStore(h, c) ==
    IF c.pc \in {"returned", "threw"}
    THEN /\ handlers' = RemoveAt(handlers, h)
         /\ initialCount' = handlers[h].newCount
         /\ diffs' = Append(diffs,
               [ outcome |-> c.pc,
                 previous |-> handlers[h].previous,
                 newCount |-> handlers[h].newCount,
                 minIndex |-> c.startingIndex,
                 result |-> c.result,
                 shown |-> Displayed(c.result),
                 report |-> Report(c),
                 counterAfter |-> handlers[h].newCount ])
    ELSE /\ handlers' = [ handlers EXCEPT ![h].call = c ]
         /\ initialCount' = handlers[h].newCount
         /\ UNCHANGED diffs

\* the callback h continues with its call in state c: it stays suspended
\* while the call is, and when the call has returned or thrown it prints
\* and stores the new counter
Continue(h, c) ==
    IF c.pc \in {"returned", "threw"}
    THEN /\ handlers' = RemoveAt(handlers, h)
         /\ initialCount' = handlers[h].newCount
         /\ diffs' = Append(diffs,
               [ outcome |-> c.pc,
                 previous |-> handlers[h].previous,
                 newCount |-> handlers[h].newCount,
                 minIndex |-> c.startingIndex,
                 result |-> c.result,
                 shown |-> Displayed(c.result),
                 report |-> Report(c),
                 counterAfter |-> handlers[h].newCount ])
    ELSE /\ handlers' = [ handlers EXCEPT ![h].call = c ]
         /\ UNCHANGED <<initialCount, diffs>>

HandlerSignatures ==
    \E h \in 1..Len(handlers) :
      /\ handlers[h].call.pc = "sigs"
      /\ Continue(h, CallSignatures(handlers[h].call, history))
      /\ UNCHANGED <<kind, cipher, sends, history, call, account, metadata, tracker,
                     listener, notifications, failures, touches>>

HandlerSignaturesFail ==
    \E h \in 1..Len(handlers) :
      /\ handlers[h].call.pc = "sigs"
      /\ failures < MaxFailures
      /\ failures' = failures + 1
      /\ Continue(h, CallSignaturesFail(handlers[h].call))
      /\ UNCHANGED <<kind, cipher, sends, history, call, account, metadata, tracker,
                     listener, notifications, touches>>

HandlerScanned ==
    \E h \in 1..Len(handlers) :
      /\ handlers[h].call.pc = "scan"
      /\ \E skipped \in SUBSET (1..Len(handlers[h].call.signatures)) :
           /\ failures + Cardinality(skipped) <= MaxFailures
           /\ failures' = failures + Cardinality(skipped)
           /\ Continue(h, CallScanned(handlers[h].call, skipped,
                                      MetadataDiscriminator(kind)))
      /\ UNCHANGED <<kind, cipher, sends, history, call, account, metadata, tracker,
                     listener, notifications, touches>>

\* SIGINT: the handler asks for the removal of the listener and awaits it;
\* callbacks already started go on
Interrupt ==
    /\ tracker = "Subscribed"
    /\ tracker' = "Stopping"
    /\ notifications' = <<>>
    /\ UNCHANGED <<kind, cipher, sends, history, call, account, metadata, listener,
                   initialCount, handlers, diffs, failures, touches>>

\* process.exit(0) without the removal of the listener
Unsubscribed_ExitFirst ==
    /\ tracker = "Stopping"
    /\ tracker' = "Unsubscribed"
    /\ handlers' = <<>>
    /\ UNCHANGED <<kind, cipher, sends, history, call, account, metadata, listener,
                   initialCount, notifications, diffs, failures, touches>>

\* removeAccountChangeListener resolves: process.exit(0)
Unsubscribed ==
    /\ tracker = "Stopping"
    /\ tracker' = "Unsubscribed"
    /\ listener' = "removed"
    /\ handlers' = <<>>
    /\ UNCHANGED <<kind, cipher, sends, history, call, account, metadata, initialCount,
                   notifications, diffs, failures, touches>>

TailNext ==
    \/ ProgramAppend
    \/ ProgramClose
    \/ Subscribe
    \/ Deliver
    \/ HandlerSignatures
    \/ HandlerSignaturesFail
    \/ HandlerScanned
    \/ Interrupt
    \/ Unsubscribed

TailSpec == TailInit /\ [][TailNext]_vars

----------------------------------------------------------------------------
(* The live tail of an account that also changes without its counter       *)
(* changing, the ledger client answering every request of the callbacks.   *)

\* the loop of the call of callback h from the first reference to the
\* last, every fetch succeeding
HandlerFetched ==
    \E h \in 1..Len(handlers) :
      /\ handlers[h].call.pc = "scan"
      /\ Continue(h, CallScanned(handlers[h].call, {},
                                 MetadataDiscriminator(kind)))
      /\ UNCHANGED <<kind, cipher, sends, history, call, account, metadata, tracker,
                     listener, notifications, failures, touches>>

TouchNext ==
    \/ ProgramAppend
    \/ ProgramTouch
    \/ Subscribe
    \/ Deliver
    \/ HandlerSignatures
    \/ HandlerFetched

TouchSpec == TailInit /\ [][TouchNext]_vars

----------------------------------------------------------------------------
(* The live tail of an account that also changes without its counter       *)
(* changing, the listing of the signatures failing for some callbacks.     *)

FlakyTouchNext ==
    \/ ProgramAppend
    \/ ProgramTouch
    \/ Subscribe
    \/ Deliver
    \/ HandlerSignatures
    \/ HandlerSignaturesFail
    \/ HandlerFetched

FlakyTouchSpec == TailInit /\ [][FlakyTouchNext]_vars

----------------------------------------------------------------------------
(* The send commands: sendMessageCommand and sendBroadcastCommand, run by   *)
(* two wallets side by side.  A run fetches the account, reads the counter  *)
(* and builds its payload, then hands the transaction to the cluster; the   *)
(* program executes the transactions one at a time.                         *)

SendInit ==
    /\ kind \in Kinds
    /\ cipher = NoCipher
    /\ sends = NoSends
    /\ history = <<>>
    /\ call = NoCall
    /\ account \in { NoAccount, Present(AccountData(kind, 0)) }
    /\ metadata = NoMetadata
    /\ tracker = "Idle"
    /\ listener = "none"
    /\ initialCount = 0
    /\ notifications = <<>>
    /\ handlers = <<>>
    /\ diffs = <<>>
    /\ failures = 0
    /\ touches = 0

\* the instruction a run of the send command has built
SentIx(w) == SendIx(kind, sends[w].messageCount, Msg(sends[w].sent), "k1")

\* a run starts: _fetchAccountData and the read of the counter, or the
\* catch of the command (process.exit(1))
SendFetch(w) ==
    /\ sends[w].pc \in {"idle", "sent"}
    /\ sends[w].sent < MaxAppends
    /\ LET m == DecodeAccount(account, kind)
       IN sends' = [ sends EXCEPT ![w] =
                       IF Proceeds(m)
                       THEN [ pc |-> "built", messageCount |-> m.messageCount,
                              sent |-> @.sent ]
                       ELSE [ @ EXCEPT !.pc = "failed" ] ]
    /\ UNCHANGED <<kind, cipher, history, call, metadata, tailVars>>

\* sendAndConfirmTransaction hands the transaction to the cluster
SendSubmit(w) ==
    /\ sends[w].pc = "built"
    /\ sends' = [ sends EXCEPT ![w].pc = "submitted" ]
    /\ UNCHANGED <<kind, cipher, history, call, metadata, tailVars>>

\* the program executes the append of a submitted transaction: the counter
\* of the account is incremented and the transaction is confirmed
ProgramExecute(w) ==
    /\ sends[w].pc = "submitted"
    /\ account.exists
    /\ Executed(w, << SentIx(w) >>)
    /\ account' = Present(AccountData(kind, Count(account.data) + 1))
    /\ sends' = [ sends EXCEPT ![w].pc = "sent", ![w].sent = @ + 1 ]
    /\ UNCHANGED <<kind, cipher, call, metadata, tracker, listener,
                   initialCount, notifications, handlers, diffs, failures,
                   touches>>

\* the program rejects the append of a submitted transaction whose index
\* is not the counter of the account: the transaction is listed as failed
\* and the command ends in its catch
ProgramReject(w) ==
    /\ sends[w].pc = "submitted"
    /\ account.exists
    /\ sends[w].messageCount # Count(account.data)
    /\ Executed(w, << SentIx(w) >>)
    /\ sends' = [ sends EXCEPT ![w].pc = "failed" ]
    /\ UNCHANGED <<kind, cipher, call, metadata, tailVars>>

SendNext ==
    \E w \in Wallets :
      \/ SendFetch(w)
      \/ SendSubmit(w)
      \/ ProgramExecute(w)
      \/ ProgramReject(w)

SendSpec == SendInit /\ [][SendNext]_vars

----------------------------------------------------------------------------
(* A message from a send command to a reader: sendMessageCommand or         *)
(* sendBroadcastCommand builds and submits the payload, the program         *)
(* executes it, and readMessagesCommand, readBroadcastsCommand or a         *)
(* callback of monitorPdaUpdates reconstructs the history.  Each command    *)
(* takes its secret from its --key option or from its default.              *)

\* the --key option of a command: absent, empty, or a secret
KeyOptions ==
    { [ given |-> FALSE, value |-> "" ], [ given |-> TRUE, value |-> "" ],
      [ given |-> TRUE, value |-> "k1" ], [ given |-> TRUE, value |-> "k2" ] }

\* the secret after || in each command
DefaultSecret(command, type) ==
    IF command = "listen" THEN "default-secret-key"
    ELSE IF type = "thread" THEN "default-secret-key"
    ELSE "default-channel-key"

\* const sharedSecret = options.key || <default>
SharedSecret(command, type, key) ==
    IF key.given /\ key.value # "" THEN key.value
    ELSE DefaultSecret(command, type)

\* the counters the account has when the message is sent
SendCounts == {0, 256}

ExchangeInit ==
    /\ kind \in Kinds
    /\ \E m \in Messages, w \in Wallets, command \in {"read", "listen"},
          senderKey \in KeyOptions, readerKey \in KeyOptions :
         cipher = [ status |-> "plain", message |-> m,
                    sender |-> SharedSecret("send", kind, senderKey),
                    reader |-> SharedSecret(command, kind, readerKey),
                    encrypted |-> <<>>, output |-> <<>>,
                    wallet |-> w, command |-> command,
                    senderKey |-> senderKey, readerKey |-> readerKey ]
    /\ sends = NoSends
    /\ history = <<>>
    /\ call = NoCall
    /\ \E c \in SendCounts : account = Present(AccountData(kind, c))
    /\ metadata = NoMetadata
    /\ tracker = "Idle"
    /\ listener = "none"
    /\ initialCount = 0
    /\ notifications = <<>>
    /\ handlers = <<>>
    /\ diffs = <<>>
    /\ failures = 0
    /\ touches = 0

\* the send command: counter read, message encrypted, payload built and
\* submitted, and the program executes the append
ExchangeSend ==
    /\ cipher.status = "plain"
    /\ LET messageCount == Count(account.data)
           encrypted == encryptMessage(cipher.message, cipher.sender)
       IN /\ cipher' = [ cipher EXCEPT !.status = "encrypted",
                                        !.encrypted = encrypted ]
          /\ Executed(cipher.wallet,
                      << Ix(2, <<0, 1>>,
                            AppendPayload(kind, messageCount, encrypted)) >>)
          /\ account' = Present(AccountData(kind, messageCount + 1))
    /\ UNCHANGED <<kind, sends, call, metadata, tracker, listener,
                   initialCount, notifications, handlers, diffs, failures,
                   touches>>

\* the reader calls _fetchNewMessages: the read commands from index 0, a
\* callback of the listen command from the counter it had before the
\* append
ExchangeRead ==
    /\ cipher.status = "encrypted"
    /\ call.pc = "idle"
    /\ call' = NewCall(cipher.reader,
                       IF cipher.command = "listen"
                       THEN Count(account.data) - 1 ELSE 0)
    /\ UNCHANGED <<kind, cipher, sends, history, metadata, tailVars>>

ExchangeNext ==
    \/ ExchangeSend
    \/ ExchangeRead
    \/ ReadSignatures
    \/ ReadFetched

ExchangeSpec == ExchangeInit /\ [][ExchangeNext]_vars

----------------------------------------------------------------------------
(* The read commands of the second client: the account, the references,    *)
(* the loop over the transactions and the sort, inline in each command     *)

\* a filter that takes the bare tag for an append
readCommandFilter_AnyLength(tx, ix, DISCRIMINATOR) ==
    /\ tx.staticAccountKeys[ix.programIdIndex + 1] = PROGRAM_ID
    /\ Len(ix.data) >= 8
    /\ Slice(ix.data, 0, 8) = DISCRIMINATOR

\* programId.equals(PROGRAM_ID), ixData.length > 8 and the first eight
\* bytes equal to the discriminator of the command
readCommandFilter(tx, ix, DISCRIMINATOR) ==
    /\ tx.staticAccountKeys[ix.programIdIndex + 1] = PROGRAM_ID
    /\ Len(ix.data) > 8
    /\ Slice(ix.data, 0, 8) = DISCRIMINATOR

\* one instruction of the loop: there is no test of the index against a
\* starting index, and the record has no signature
readCommandIx(sigInfo, ix, DISCRIMINATOR, secret) ==
    LET tx == sigInfo.transaction
        ixData == ix.data
    IN IF ~readCommandFilter(tx, ix, DISCRIMINATOR) THEN Outcome(<<>>, FALSE)
       ELSE IF ~CanReadUInt32LE(ixData, 8) THEN Outcome(<<>>, TRUE)
       ELSE IF ~CanReadUInt32LE(ixData, 12) THEN Outcome(<<>>, TRUE)
       ELSE LET messageIndex == ReadUInt32LE(ixData, 8)
                contentLength == ReadUInt32LE(ixData, 12)
                encrypted == Slice(ixData, 16, 16 + contentLength)
            IN IF ~DecryptOk(encrypted, secret) THEN Outcome(<<>>, FALSE)
               ELSE IF \/ Len(ix.accountKeyIndexes) < 2
                       \/ ix.accountKeyIndexes[2] + 1
                            > Len(tx.staticAccountKeys)
               THEN Outcome(<<>>, FALSE)
               ELSE Outcome(
                      << [ index |-> messageIndex,
                           sender |->
                             tx.staticAccountKeys[ix.accountKeyIndexes[2] + 1],
                           content |-> decryptMessage(encrypted, secret),
                           timestamp |-> sigInfo.blockTime ] >>,
                      FALSE)

\* the instructions of one transaction from instruction n on; a throw is
\* caught by the try around the transaction
RECURSIVE readCommandIxsFrom(_, _, _, _)
readCommandIxsFrom(sigInfo, n, DISCRIMINATOR, secret) ==
    LET ixs == sigInfo.transaction.compiledInstructions
    IN IF n > Len(ixs) THEN <<>>
       ELSE LET o == readCommandIx(sigInfo, ixs[n], DISCRIMINATOR, secret)
            IN IF o.thrown THEN o.pushed
               ELSE o.pushed \o readCommandIxsFrom(sigInfo, n + 1,
                                                   DISCRIMINATOR, secret)

\* the references from position n on, the fetches of the positions in
\* skipped failing
RECURSIVE readCommandScan(_, _, _, _, _)
readCommandScan(signatures, n, skipped, DISCRIMINATOR, secret) ==
    IF n > Len(signatures) THEN <<>>
    ELSE (IF n \in skipped THEN <<>>
          ELSE readCommandIxsFrom(signatures[n], 1, DISCRIMINATOR, secret))
         \o readCommandScan(signatures, n + 1, skipped, DISCRIMINATOR, secret)

\* messages.sort((a, b) => a.index - b.index), a stable sort
RECURSIVE readCommandSort(_)
readCommandSort(messages) ==
    IF messages = <<>> THEN <<>>
    ELSE LET least == CHOOSE i \in 1..Len(messages) :
                        /\ \A j \in 1..Len(messages) :
                             messages[i].index <= messages[j].index
                        /\ \A j \in 1..(i - 1) :
                             messages[j].index # messages[i].index
         IN <<messages[least]>>
            \o readCommandSort(SubSeq(messages, 1, least - 1)
                               \o SubSeq(messages, least + 1, Len(messages)))

\* no records: the command leaves its try block with an error
ReadCommandThrown == [ status |-> "threw", records |-> <<>> ]

\* the read command of a thread
readMessagesCommand(accountInfo, ledger, skipped, secret) ==
    LET data == accountInfo.data IN
    IF ~Found(accountInfo) THEN ReadCommandThrown
    ELSE IF ~IsPublicKey(Slice(data, 8, 40)) THEN ReadCommandThrown
    ELSE IF ~IsPublicKey(Slice(data, 40, 72)) THEN ReadCommandThrown
    ELSE IF ~CanReadUInt32LE(data, 104) THEN ReadCommandThrown
    ELSE [ status |-> "ok",
           records |->
             readCommandSort(
               readCommandScan(Take(ledger, SigLimit), 1, skipped,
                               AppendDiscriminator("thread"), secret)) ]

\* the read command of a channel
readBroadcastsCommand(accountInfo, ledger, skipped, secret) ==
    LET data == accountInfo.data IN
    IF ~Found(accountInfo) THEN ReadCommandThrown
    ELSE IF ~IsPublicKey(Slice(data, 8, 40)) THEN ReadCommandThrown
    ELSE IF ~CanReadUInt32LE(data, 40) THEN ReadCommandThrown
    ELSE IF ~CanReadUInt32LE(data, 76) THEN ReadCommandThrown
    ELSE [ status |-> "ok",
           records |->
             readCommandSort(
               readCommandScan(Take(ledger, SigLimit), 1, skipped,
                               AppendDiscriminator("channel"), secret)) ]

----------------------------------------------------------------------------
(* Vocabulary of the properties of the read path *)

Returned == call.pc = "returned"

Range(s) == { s[i] : i \in 1..Len(s) }

IndexOrdered(ms) ==
    \A i \in 1..Len(ms) : \A j \in i..Len(ms) : ms[i].index <= ms[j].index

\* the records of ms with index >= k, in the order of ms
RECURSIVE FromIndex(_, _)
FromIndex(ms, k) ==
    IF ms = <<>> THEN <<>>
    ELSE (IF ms[1].index >= k THEN <<ms[1]>> ELSE <<>>)
         \o FromIndex(Tail(ms), k)

\* the positions (reference, instruction) of the ledger
IxPositions(ledger) ==
    UNION { { <<t, n>> : n \in 1..Len(ledger[t].transaction.compiledInstructions) }
            : t \in 1..Len(ledger) }

IxAt(ledger, p) == ledger[p[1]].transaction.compiledInstructions[p[2]]

\* the instruction at p is an append of the account's kind
IsTagged(ledger, p) ==
    MatchesFilter(ledger[p[1]].transaction, IxAt(ledger, p),
                  MetadataDiscriminator(kind))

\* the payload at p holds both u32 fields
HasFields(ledger, p) == Len(IxAt(ledger, p).data) >= 16

DeclaredIndex(ledger, p) == ReadUInt32LE(IxAt(ledger, p).data, 8)

DeclaredLength(ledger, p) == ReadUInt32LE(IxAt(ledger, p).data, 12)

\* the bytes the payload at p has after offset 16
Remaining(ledger, p) == Len(IxAt(ledger, p).data) - 16

\* the bytes the extractor hands to the cipher for the payload at p
CipherInput(ledger, p) ==
    Slice(IxAt(ledger, p).data, 16, 16 + DeclaredLength(ledger, p))

\* the instruction at p is a complete append, readable with the secret
WellFormed(ledger, p, sharedSecret) ==
    /\ HasFields(ledger, p)
    /\ DeclaredLength(ledger, p) = Remaining(ledger, p)
    /\ DecryptOk(CipherInput(ledger, p), sharedSecret)
    /\ SenderDefined(ledger[p[1]].transaction, IxAt(ledger, p))

\* the record an append at p stands for
RecordAt(ledger, p, sharedSecret) ==
    [ index |-> DeclaredIndex(ledger, p),
      sender |-> ledger[p[1]].transaction.staticAccountKeys[
                     IxAt(ledger, p).accountKeyIndexes[2] + 1],
      content |-> decryptMessage(CipherInput(ledger, p), sharedSecret),
      timestamp |-> ledger[p[1]].blockTime,
      signature |-> ledger[p[1]].signature ]

Tagged(ledger) == { p \in IxPositions(ledger) : IsTagged(ledger, p) }

\* the appends of the window carry the indices 0..n-1, once each, and every
\* one of them is complete and readable with the secret of the call
CarriesAllIndices(ledger, sharedSecret) ==
    LET T == Tagged(ledger)
    IN /\ \A p \in T : WellFormed(ledger, p, sharedSecret)
       /\ \A i \in 0..(Cardinality(T) - 1) :
            \E p \in T : DeclaredIndex(ledger, p) = i

----------------------------------------------------------------------------
(* C1: when the appends of the window carry the indices 0..n-1, all        *)
(* readable with the secret, in any order over the transactions, and every *)
(* transaction is fetched, the call with startingIndex 0 returns exactly n *)
(* records, the record of index i-1 at place i, each the record of the     *)
(* append that carries that index.                                         *)
C1_NoLoss ==
    ( /\ Returned
      /\ call.startingIndex = 0
      /\ call.skipped = {}
      /\ CarriesAllIndices(call.signatures, call.sharedSecret) )
    => /\ Len(call.result) = Cardinality(Tagged(call.signatures))
       /\ \A i \in 1..Len(call.result) :
            /\ call.result[i].index = i - 1
            /\ \E p \in Tagged(call.signatures) :
                 call.result[i] =
                   RecordAt(call.signatures, p, call.sharedSecret)

\* three appends, found by the scan in an order that is not the index order
C1_Witness ==
    /\ Returned
    /\ call.startingIndex = 0
    /\ call.skipped = {}
    /\ CarriesAllIndices(call.signatures, call.sharedSecret)
    /\ Len(call.result) = 3
    /\ call.messages # call.result

(* C2: whatever the scan met (skipped references, failed decryptions,      *)
(* duplicate indices), the returned sequence is non-decreasing in index;   *)
(* it exists only once every reference of the window has been processed,   *)
(* and it holds the records of the scan, none added and none dropped.      *)
C2_SortedAfterScan ==
    /\ Returned =>
         /\ IndexOrdered(call.result)
         /\ call.pos = Len(call.signatures) + 1
         /\ Len(call.result) = Len(call.messages)
         /\ Range(call.result) = Range(call.messages)
    /\ ~Returned => call.result = <<>>

\* a returned scan that met an append it could not decrypt, found an index
\* in two transactions and found the records out of order
C2_Witness ==
    /\ Returned
    /\ \E p \in Tagged(call.signatures) :
         /\ p[1] \notin call.skipped
         /\ HasFields(call.signatures, p)
         /\ ~DecryptOk(CipherInput(call.signatures, p), call.sharedSecret)
    /\ \E i, j \in 1..Len(call.result) :
         /\ call.result[i].index = call.result[j].index
         /\ call.result[i].signature # call.result[j].signature
    /\ ~IndexOrdered(call.messages)

\* the ledger without the references at the given positions
RECURSIVE WithoutRefs(_, _, _)
WithoutRefs(ledger, n, positions) ==
    IF n > Len(ledger) THEN <<>>
    ELSE (IF n \in positions THEN <<>> ELSE <<ledger[n]>>)
         \o WithoutRefs(ledger, n + 1, positions)

\* the append at p reaches the cipher and the cipher rejects it
Undecryptable(ledger, p, sharedSecret, startingIndex) ==
    /\ IsTagged(ledger, p)
    /\ HasFields(ledger, p)
    /\ DeclaredIndex(ledger, p) >= startingIndex
    /\ ~DecryptOk(CipherInput(ledger, p), sharedSecret)

RECURSIVE KeepIxs(_, _, _)
KeepIxs(ixs, n, dropped) ==
    IF n > Len(ixs) THEN <<>>
    ELSE (IF n \in dropped THEN <<>> ELSE <<ixs[n]>>)
         \o KeepIxs(ixs, n + 1, dropped)

\* the ledger without the instructions at the given positions
WithoutIxs(ledger, positions) ==
    [ t \in 1..Len(ledger) |->
        [ ledger[t] EXCEPT !.transaction.compiledInstructions =
            KeepIxs(@, 1, { n \in 1..Len(@) : <<t, n>> \in positions }) ] ]

(* C5: the call with startingIndex k returns the sequence that the call    *)
(* with startingIndex 0 returns over the same references and the same      *)
(* fetch outcomes, restricted to the records of index >= k.                *)
C5_TailEquivalence ==
    Returned =>
      call.result =
        FromIndex(fetchNewMessages(call.signatures, call.skipped,
                                   MetadataDiscriminator(kind),
                                   call.sharedSecret, 0),
                  call.startingIndex)

\* a call with k > 0 that returned records while the full reconstruction
\* has records below k
C5_Witness ==
    /\ Returned
    /\ call.startingIndex > 0
    /\ Len(call.result) >= 2
    /\ \E r \in Range(fetchNewMessages(call.signatures, call.skipped,
                                       MetadataDiscriminator(kind),
                                       call.sharedSecret, 0)) :
         r.index < call.startingIndex

(* C6: the returned sequence has no record of index < startingIndex, and   *)
(* every append of a fetched transaction that is complete enough to be     *)
(* read, decrypts with the secret, names its sender and has index >=       *)
(* startingIndex is in the returned sequence.                              *)
C6_ExactlyFromMinIndex ==
    Returned =>
      /\ \A r \in Range(call.result) : r.index >= call.startingIndex
      /\ \A p \in Tagged(call.signatures) :
           ( /\ p[1] \notin call.skipped
             /\ HasFields(call.signatures, p)
             /\ DecryptOk(CipherInput(call.signatures, p), call.sharedSecret)
             /\ SenderDefined(call.signatures[p[1]].transaction,
                              IxAt(call.signatures, p))
             /\ DeclaredIndex(call.signatures, p) >= call.startingIndex )
           => RecordAt(call.signatures, p, call.sharedSecret)
                \in Range(call.result)

(* C7: no two records of the returned sequence have the same index.        *)
C7_UniqueIndex ==
    Returned =>
      \A i, j \in 1..Len(call.result) :
        call.result[i].index = call.result[j].index => i = j

(* C8: the call returns what it returns over the window without the        *)
(* references whose fetch failed: a failed fetch removes the records of    *)
(* its own reference and nothing else.                                     *)
C8_FetchFailureSkipsOneRef ==
    Returned =>
      call.result =
        fetchNewMessages(WithoutRefs(call.signatures, 1, call.skipped), {},
                         MetadataDiscriminator(kind), call.sharedSecret,
                         call.startingIndex)

\* a fetch failed, and a reference after the failed one gave a record
C8_Witness ==
    /\ Returned
    /\ \E t \in call.skipped :
         /\ ProcessTx(call.signatures[t], MetadataDiscriminator(kind),
                      call.sharedSecret, call.startingIndex) # <<>>
         /\ \E r \in Range(call.result) :
              r.signature < call.signatures[t].signature

(* C9: the call returns what it returns over the window without the        *)
(* appends the cipher rejects: a failed decryption removes its own record  *)
(* and nothing else, in its transaction and in the others.                 *)
C9_DecryptFailureSkipsOneRecord ==
    Returned =>
      call.result =
        fetchNewMessages(
          WithoutIxs(call.signatures,
                     { p \in IxPositions(call.signatures) :
                         Undecryptable(call.signatures, p, call.sharedSecret,
                                       call.startingIndex) }),
          call.skipped, MetadataDiscriminator(kind), call.sharedSecret,
          call.startingIndex)

\* the cipher rejected an append of a fetched transaction, and a later
\* append of the same transaction and one of a later transaction are
\* in the result
C9_Witness ==
    /\ Returned
    /\ \E p \in IxPositions(call.signatures) :
         /\ p[1] \notin call.skipped
         /\ Undecryptable(call.signatures, p, call.sharedSecret,
                          call.startingIndex)
         /\ \E q \in Tagged(call.signatures) :
              /\ q[1] = p[1]
              /\ q[2] > p[2]
              /\ WellFormed(call.signatures, q, call.sharedSecret)
              /\ RecordAt(call.signatures, q, call.sharedSecret)
                   \in Range(call.result)
         /\ \E r \in Range(call.result) :
              r.signature < call.signatures[p[1]].signature

(* C10: an append whose declared content length exceeds the bytes that     *)
(* follow offset 16 gives no record: once its transaction has been         *)
(* scanned, no returned or collected record is the record of such an       *)
(* append.                                                                 *)
C10_OverlongLengthRejected ==
    \A p \in Tagged(call.signatures) :
      ( /\ p[1] < call.pos
        /\ p[1] \notin call.skipped
        /\ HasFields(call.signatures, p)
        /\ DeclaredLength(call.signatures, p) > Remaining(call.signatures, p) )
      => ProcessIx(call.signatures[p[1]], IxAt(call.signatures, p),
                   MetadataDiscriminator(kind), call.sharedSecret,
                   call.startingIndex).pushed = <<>>

\* the instruction at p targets the program and its payload has at least
\* the given number of bytes, the first 8 of them the tag of the kind
TagMatch(ledger, p, least) ==
    LET tx == ledger[p[1]].transaction
        ix == IxAt(ledger, p)
    IN /\ tx.staticAccountKeys[ix.programIdIndex + 1] = PROGRAM_ID
       /\ Len(ix.data) >= least
       /\ SubSeq(ix.data, 1, Min(8, Len(ix.data))) = MetadataDiscriminator(kind)

\* the payload at p has its fields, a ciphertext the secret opens and a
\* sender among the keys
Readable(ledger, p, sharedSecret) ==
    /\ HasFields(ledger, p)
    /\ DecryptOk(CipherInput(ledger, p), sharedSecret)
    /\ SenderDefined(ledger[p[1]].transaction, IxAt(ledger, p))

\* the records extracted from one transaction stand in the order of their
\* instructions
NativeOrder(c) ==
    \A i \in 1..Len(c.messages) : \A j \in (i + 1)..Len(c.messages) :
      c.messages[i].signature = c.messages[j].signature =>
        \E p, q \in Tagged(c.signatures) :
          /\ p[1] = q[1]
          /\ p[2] < q[2]
          /\ c.signatures[p[1]].signature = c.messages[i].signature
          /\ Readable(c.signatures, p, c.sharedSecret)
          /\ Readable(c.signatures, q, c.sharedSecret)
          /\ c.messages[i] = RecordAt(c.signatures, p, c.sharedSecret)
          /\ c.messages[j] = RecordAt(c.signatures, q, c.sharedSecret)

(* C26: an instruction is taken by the filter exactly when it targets the  *)
(* program, its payload is longer than the 8-byte tag and begins with the  *)
(* tag; the result of the call is the result over the ledger without the   *)
(* other instructions, and the records of one transaction are extracted in *)
(* the order of its instructions.                                          *)
C26_FilterMatches ==
    Returned =>
      /\ \A p \in IxPositions(call.signatures) :
           IsTagged(call.signatures, p) <=> TagMatch(call.signatures, p, 9)
      /\ call.result =
           fetchNewMessages(
             WithoutIxs(call.signatures,
                        { p \in IxPositions(call.signatures) :
                            ~TagMatch(call.signatures, p, 9) }),
             call.skipped, MetadataDiscriminator(kind), call.sharedSecret,
             call.startingIndex)
      /\ NativeOrder(call)

\* a fetched transaction holds an instruction of another program, a payload
\* that is the bare tag and an append, and the record of the append is
\* returned
C26_Witness ==
    /\ Returned
    /\ \E p, q, r \in IxPositions(call.signatures) :
         /\ p[1] = q[1] /\ q[1] = r[1]
         /\ p[1] \notin call.skipped
         /\ TagMatch(call.signatures, p, 8)
         /\ ~TagMatch(call.signatures, p, 9)
         /\ call.signatures[q[1]].transaction.staticAccountKeys[
                IxAt(call.signatures, q).programIdIndex + 1] # PROGRAM_ID
         /\ TagMatch(call.signatures, r, 9)
         /\ Readable(call.signatures, r, call.sharedSecret)
         /\ \E i \in 1..Len(call.result) :
              call.result[i] =
                RecordAt(call.signatures, r, call.sharedSecret)

(* C26 as stated: an instruction is taken by the filter exactly when it    *)
(* targets the program, its payload has at least the 8 bytes of the tag    *)
(* and begins with the tag.                                                *)
C26_MatchesFromTagLength ==
    Returned =>
      \A p \in IxPositions(call.signatures) :
        IsTagged(call.signatures, p) <=> TagMatch(call.signatures, p, 8)

(* C27: every returned record comes from an append of its transaction     *)
(* that carries its index and content, and its sender is the key that the  *)
(* second entry of the account list of that same instruction refers to.    *)
C27_SenderFromOwnInstruction ==
    Returned =>
      \A i \in 1..Len(call.result) :
        \E p \in Tagged(call.signatures) :
          /\ call.signatures[p[1]].signature = call.result[i].signature
          /\ Readable(call.signatures, p, call.sharedSecret)
          /\ DeclaredIndex(call.signatures, p) = call.result[i].index
          /\ decryptMessage(CipherInput(call.signatures, p),
                            call.sharedSecret) = call.result[i].content
          /\ call.result[i].sender =
               call.signatures[p[1]].transaction.staticAccountKeys[
                 IxAt(call.signatures, p).accountKeyIndexes[2] + 1]

\* two records of one transaction are returned with different senders,
\* neither of them the first key of the transaction
C27_Witness ==
    /\ Returned
    /\ \E i, j \in 1..Len(call.result) :
         /\ call.result[i].signature = call.result[j].signature
         /\ call.result[i].sender # call.result[j].sender
         /\ \A t \in 1..Len(call.signatures) :
              call.signatures[t].signature = call.result[i].signature =>
                /\ call.signatures[t].transaction.staticAccountKeys[1]
                     # call.result[i].sender
                /\ call.signatures[t].transaction.staticAccountKeys[1]
                     # call.result[j].sender

\* the positions of the ledger whose payload does not begin with the tag
OtherTagged(ledger, tag) ==
    { p \in IxPositions(ledger) : Slice(IxAt(ledger, p).data, 0, 8) # tag }

(* C28: the records of a call for a thread come from instructions whose    *)
(* payload begins with the sendMessage tag, those of a call for a channel  *)
(* from instructions that begin with the sendBroadcast tag, and the result *)
(* is the result over the ledger without every instruction that begins     *)
(* with another tag.                                                       *)
C28_OnlyAppendTagOfKind ==
    Returned =>
      LET tag == IF kind = "thread" THEN DISCRIMINATORS.sendMessage
                 ELSE DISCRIMINATORS.sendBroadcast
          others == OtherTagged(call.signatures, tag)
      IN /\ \A i \in 1..Len(call.result) :
              \E p \in IxPositions(call.signatures) \ others :
                /\ call.signatures[p[1]].signature = call.result[i].signature
                /\ HasFields(call.signatures, p)
                /\ DeclaredIndex(call.signatures, p) = call.result[i].index
         /\ call.result =
              fetchNewMessages(WithoutIxs(call.signatures, others),
                               call.skipped, tag, call.sharedSecret,
                               call.startingIndex)

\* a fetched transaction holds a readable append of the other kind and
\* readable payloads under the tags of initialize, subscribe and close,
\* and the one record returned for it is the one of its append
C28_Witness ==
    /\ Returned
    /\ call.startingIndex = 0
    /\ \E t \in 1..Len(call.signatures) :
         /\ t \notin call.skipped
         /\ \A d \in { DISCRIMINATORS.sendMessage, DISCRIMINATORS.sendBroadcast,
                        DISCRIMINATORS.subscribeChannel,
                        IF kind = "thread" THEN DISCRIMINATORS.closeThread
                        ELSE DISCRIMINATORS.closeChannel,
                        IF kind = "thread" THEN DISCRIMINATORS.initializeThread
                        ELSE DISCRIMINATORS.initializeChannel } :
              \E p \in IxPositions(call.signatures) :
                /\ p[1] = t
                /\ Slice(IxAt(call.signatures, p).data, 0, 8) = d
                /\ Readable(call.signatures, p, call.sharedSecret)
         /\ Cardinality({ i \in 1..Len(call.result) :
                            call.result[i].signature =
                              call.signatures[t].signature }) = 1

\* the first record of ms that has index k
FirstOfIndex(ms, k) ==
    ms[CHOOSE i \in 1..Len(ms) :
         /\ ms[i].index = k
         /\ \A j \in 1..(i - 1) : ms[j].index # k]

(* C29: for every index of the result, the record that the returned array  *)
(* lists first for it, and the record a tail callback shows of the array,  *)
(* is the record of that index that the scan extracted first.              *)
C29_FirstExtractedWins ==
    Returned =>
      /\ \A i \in 1..Len(call.result) :
           FirstOfIndex(call.result, call.result[i].index)
             = FirstOfIndex(call.messages, call.result[i].index)
      /\ \A i \in 1..Len(Displayed(call.result)) :
           Displayed(call.result)[i]
             = FirstOfIndex(call.messages, Displayed(call.result)[i].index)

\* the record of the first client without its signature
RecordFields(r) ==
    [ index |-> r.index, sender |-> r.sender, content |-> r.content,
      timestamp |-> r.timestamp ]

\* what the read command of the second client gives on the account, the
\* ledger and the failed fetches of the call of the first
OtherReadCommand ==
    IF kind = "thread"
    THEN readMessagesCommand(account, history, call.skipped,
                             call.sharedSecret)
    ELSE readBroadcastsCommand(account, history, call.skipped,
                               call.sharedSecret)

(* C37: on the same account, ledger, failed fetches and secret, the read   *)
(* command of the second client goes on to its loop exactly when the first *)
(* client's does, and its records are, in order, the records of the first  *)
(* client's call with starting index 0 (index, sender, content,            *)
(* timestamp).                                                             *)
C37_ReadCommandsAgree ==
    /\ metadata.status # "none" =>
         (Proceeds(metadata) <=> OtherReadCommand.status = "ok")
    /\ (Returned /\ call.startingIndex = 0) =>
         /\ OtherReadCommand.status = "ok"
         /\ OtherReadCommand.records
              = [ i \in 1..Len(call.result) |-> RecordFields(call.result[i]) ]

C37_Witness ==
    /\ Returned
    /\ call.startingIndex = 0
    /\ Len(call.result) >= 2
    /\ ~IndexOrdered(call.messages)
    /\ \E p \in Tagged(call.signatures) : ~HasFields(call.signatures, p)

\* one turn of the loop of a call: the reference at pos is fetched, and no
\* other; the instructions of a fetched transaction push at most one
\* record each, a failed fetch pushes none
LoopTurn ==
    /\ call'.signatures = call.signatures
    /\ call'.pos = call.pos + 1
    /\ call'.pc = IF call'.pos > Len(call.signatures) THEN "returned"
                  ELSE "scan"
    /\ \/ /\ call'.skipped = call.skipped \cup {call.pos}
          /\ call'.messages = call.messages
       \/ /\ call'.skipped = call.skipped
          /\ Len(call'.messages) >= Len(call.messages)
          /\ SubSeq(call'.messages, 1, Len(call.messages)) = call.messages
          /\ Len(call'.messages) - Len(call.messages)
               <= Len(call.signatures[call.pos].transaction
                        .compiledInstructions)

(* C39: once the references are listed the call returns, whatever fetches, *)
(* payloads and decryptions fail: every turn of the loop fetches the next  *)
(* reference of the window and no other, a fetched transaction pushes at   *)
(* most one record per instruction, and after the last reference the call  *)
(* returns the records it pushed, sorted by index.                         *)
C39_LoopTerminates ==
    /\ [][ call.pc = "scan" => LoopTurn ]_vars
    /\ [](Returned =>
            /\ call.pos = Len(call.signatures) + 1
            /\ call.result = SortByIndex(call.messages)
            /\ IndexOrdered(call.result))
    /\ (call.pc = "scan" ~> Returned)

C39_Witness ==
    /\ Returned
    /\ Len(call.signatures) >= 2
    /\ call.skipped # {}
    /\ call.result # <<>>
    /\ \E p \in Tagged(call.signatures) :
         \/ ~HasFields(call.signatures, p)
         \/ /\ HasFields(call.signatures, p)
            /\ ~Readable(call.signatures, p, call.sharedSecret)

(* C22: an append of the account's kind whose payload is too short for     *)
(* its index and length fields costs nothing but itself: the call returns  *)
(* what it returns over the window without those instructions.             *)
C22_ShortPayloadContained ==
    Returned =>
      call.result =
        fetchNewMessages(
          WithoutIxs(call.signatures,
                     { p \in Tagged(call.signatures) :
                         ~HasFields(call.signatures, p) }),
          call.skipped, MetadataDiscriminator(kind), call.sharedSecret,
          call.startingIndex)

Decoded == metadata.status # "none"

C18_WindowOfNewest ==
    /\ call.pc # "threw"
    /\ call.pc \in {"scan", "returned"} =>
         /\ Len(call.signatures) = Min(SigLimit, Len(history))
         /\ \A t \in 1..Len(call.signatures) : call.signatures[t] = history[t]
    /\ Returned =>
         \A r \in Range(call.result) :
           \E t \in 1..Min(SigLimit, Len(history)) :
             history[t].signature = r.signature

\* the ledger holds a readable append behind its 1000 newest transactions:
\* the call has returned the record of the 1000th and not that one
C18_Witness ==
    /\ Returned
    /\ Len(history) > SigLimit
    /\ \E t \in (SigLimit + 1)..Len(history) :
         ProcessTx(history[t], MetadataDiscriminator(kind), call.sharedSecret,
                   call.startingIndex) # <<>>
    /\ \E r \in Range(call.result) :
         r.signature = history[SigLimit].signature

(* C19: the value a call returns tells how many references it skipped: a   *)
(* call that skipped references does not return what a call that skips    *)
(* nothing returns over the window without those references.               *)
C19_FailureCountReturned ==
    (Returned /\ call.skipped # {}) =>
      call.result #
        fetchNewMessages(WithoutRefs(call.signatures, 1, call.skipped), {},
                         MetadataDiscriminator(kind), call.sharedSecret,
                         call.startingIndex)

(* C20: when the account of a read command is not found, the command has   *)
(* made no call of the reconstruction: no reference was requested, no      *)
(* transaction fetched and no record collected.                            *)
C20_NotFoundStopsRead ==
    (Decoded /\ ~account.exists) =>
      /\ metadata.error = NotFoundMessage(kind)
      /\ call = NoCall

\* the account of a ledger with transactions is not found
C20_Witness ==
    /\ Decoded
    /\ ~account.exists
    /\ history # <<>>
    /\ metadata.status = "threw"

----------------------------------------------------------------------------
(* Properties of the live tail *)

(* C3: every diff the callback completes for a notification with           *)
(* new > previous called the reconstruction with minIndex = previous, left *)
(* the counter at new, and showed every record the reconstruction          *)
(* returned.                                                               *)
C3_EmitsEveryRecord ==
    \A d \in Range(diffs) :
      d.outcome = "returned" =>
        /\ d.newCount > d.previous
        /\ d.minIndex = d.previous
        /\ d.counterAfter = d.newCount
        /\ d.shown = d.result

(* C11: every record a callback shows for a notification with counter     *)
(* new, compared with the last-observed counter previous, has an index     *)
(* from previous up to new - 1.                                            *)
C11_ShownWithinRange ==
    \A d \in Range(diffs) :
      \A i \in 1..Len(d.shown) :
        /\ d.previous <= d.shown[i].index
        /\ d.shown[i].index < d.newCount

(* C12: a notification whose counter is not above the last-observed one    *)
(* starts no callback work: no call of the reconstruction is made for it,  *)
(* nothing is shown and the last-observed counter stays.                   *)
C12_NoOpWhenNotAdvanced ==
    /\ \A d \in Range(diffs) :
         (d.outcome # "fault" /\ d.newCount <= d.previous) =>
           /\ d.outcome = "noop"
           /\ d.result = <<>>
           /\ d.shown = <<>>
           /\ d.counterAfter = d.previous
    /\ \A h \in 1..Len(handlers) :
         handlers[h].newCount > handlers[h].previous

\* a notification with the counter the tracker had already stored has been
\* handled
C12_Witness ==
    \E d \in Range(diffs) :
      /\ d.outcome = "noop"
      /\ d.previous > 0
      /\ d.newCount = d.previous

(* C13: when the process of the listen command has exited and a            *)
(* subscription had been created, the subscription has been removed and    *)
(* the exit was the one that follows the removal.                          *)
C13_ReleasedBeforeExit ==
    (tracker \in {"Unsubscribed", "Failed", "Crashed"} /\ listener # "none")
      => (listener = "removed" /\ tracker = "Unsubscribed")

(* C14: when the metadata fetch or the first read of the counter fails,    *)
(* the listen command is in Failed: no subscription was created, no        *)
(* notification is pending or being handled, nothing was shown.            *)
C14_SetupFailure ==
    metadata.status = "threw" =>
      /\ tracker = "Failed"
      /\ listener = "none"
      /\ notifications = <<>>
      /\ handlers = <<>>
      /\ diffs = <<>>

\* the account of a thread or channel with a history is not there when the
\* listen command starts
C14_Witness ==
    /\ tracker = "Failed"
    /\ ~account.exists
    /\ history # <<>>
    /\ metadata.error = NotFoundMessage(kind)

(* C23: a notification whose bytes are too short to hold the counter at    *)
(* the offset of the kind raises no fault out of the callback: the promise *)
(* of no callback is rejected, the process is not ended by it, and the     *)
(* last-observed counter is the one before the notification.               *)
C23_ShortNotificationContained ==
    /\ tracker # "Crashed"
    /\ \A d \in Range(diffs) :
         /\ d.outcome # "fault"
         /\ d.outcome = "noop" => d.counterAfter = d.previous

(* C24: a callback whose call returned no record for an advanced counter   *)
(* reports the soft could-not-retrieve line and not an error, stores the   *)
(* new counter as the last-observed one, and leaves the subscription, the  *)
(* state of the tracker and the pending notifications as they were.        *)
C24_SoftWhenNoRecord ==
    [][ \A i \in (Len(diffs) + 1)..Len(diffs') :
          (diffs'[i].outcome = "returned" /\ diffs'[i].result = <<>>) =>
            /\ diffs'[i].newCount > diffs'[i].previous
            /\ diffs'[i].report = "soft"
            /\ initialCount' = diffs'[i].newCount
            /\ tracker' = tracker
            /\ listener' = listener
            /\ notifications' = notifications ]_vars

\* after a callback reported that it found no record, the callback of a
\* later notification showed a record
C24_Witness ==
    \E i, j \in 1..Len(diffs) :
      /\ i < j
      /\ diffs[i].report = "soft"
      /\ diffs[i].counterAfter > diffs[i].previous
      /\ diffs[j].report = "message"
      /\ tracker = "Subscribed"

(* C25: after an interrupt of the subscribed listen command the process    *)
(* leaves the state in which the removal of the listener is awaited only   *)
(* by the exit that follows the removal: the exit of the interrupt path is *)
(* reached only from that state and with the listener removed.             *)
C25_UnsubscribedBeforeExit ==
    [][ /\ tracker = "Stopping" =>
              /\ tracker' \in {"Stopping", "Unsubscribed"}
              /\ listener = "registered"
              /\ tracker' = "Unsubscribed" => listener' = "removed"
        /\ (tracker' = "Unsubscribed" /\ tracker # "Unsubscribed") =>
              tracker = "Stopping" ]_vars

\* the listen command was interrupted after it had shown a record, and has
\* exited
C25_Witness ==
    /\ tracker = "Unsubscribed"
    /\ listener = "removed"
    /\ \E d \in Range(diffs) : d.report = "message"

(* C30: no step of a callback or of its call changes the ledger or the     *)
(* account, and the last-observed counter changes only when the listen     *)
(* command reads its first value or when a callback ends: no step of a     *)
(* call that is still running changes it.                                  *)
C30_ReadOnly ==
    [][ /\ (handlers' # handlers \/ diffs' # diffs) =>
              (history' = history /\ account' = account)
        /\ initialCount' # initialCount =>
              \/ tracker = "Idle"
              \/ /\ Len(diffs') = Len(diffs) + 1
                 /\ Len(handlers') = Len(handlers) - 1
                 /\ diffs'[Len(diffs')].outcome \in {"returned", "threw"}
                 /\ initialCount' = diffs'[Len(diffs')].counterAfter ]_vars

\* a callback has ended with a record and stored its counter while the
\* call of another callback is running over the ledger
C30_Witness ==
    /\ \E d \in Range(diffs) :
         /\ d.result # <<>>
         /\ initialCount = d.counterAfter
         /\ initialCount > d.previous
    /\ \E h \in 1..Len(handlers) :
         /\ handlers[h].call.pc = "scan"
         /\ handlers[h].call.signatures = history

(* C31: no step of the listen command lowers the last-observed counter.    *)
C31_CounterNeverDecreases ==
    [][ initialCount' >= initialCount ]_vars

(* C32: no index is shown twice by the callbacks of one subscription: the  *)
(* records shown for two notifications have different indices, and so have *)
(* two records shown for one notification.                                 *)
C32_IndexShownOnce ==
    \A i, j \in 1..Len(diffs) :
      \A a \in 1..Len(diffs[i].shown) : \A b \in 1..Len(diffs[j].shown) :
        (i # j \/ a # b) => diffs[i].shown[a].index # diffs[j].shown[b].index

(* C33: every record a callback shows has an index that is not below the   *)
(* counter the listen command decoded from the account when it subscribed, *)
(* and every call a callback makes starts from such an index.              *)
C33_NothingBeforeSubscription ==
    /\ \A d \in Range(diffs) :
         /\ d.outcome \in {"returned", "threw"} =>
              d.minIndex >= metadata.messageCount
         /\ \A i \in 1..Len(d.shown) :
              d.shown[i].index >= metadata.messageCount
    /\ \A h \in 1..Len(handlers) :
         handlers[h].call.startingIndex >= metadata.messageCount

\* the account held a message when the listen command subscribed, the
\* ledger lists it, and a callback has shown a record
C33_Witness ==
    /\ tracker = "Subscribed"
    /\ metadata.messageCount > 0
    /\ failures = 0
    /\ \E d \in Range(diffs) : d.shown # <<>>
    /\ \E p \in Tagged(history) :
         /\ Readable(history, p, "k1")
         /\ DeclaredIndex(history, p) < metadata.messageCount

(* C34: a callback whose call threw reports the error and ends like any    *)
(* other: the tracker and the subscription stay as they were and the       *)
(* counter of its notification becomes the last-observed one; and a        *)
(* callback that starts after it calls with a minimum index that is not    *)
(* below that counter.                                                     *)
C34_ThrowContained ==
    [][ /\ \A i \in (Len(diffs) + 1)..Len(diffs') :
             diffs'[i].outcome = "threw" =>
               /\ diffs'[i].report = "error"
               /\ initialCount' = diffs'[i].newCount
               /\ tracker' = tracker
               /\ listener' = listener
               /\ notifications' = notifications
        /\ Len(handlers') = Len(handlers) + 1 =>
             \A d \in Range(diffs) :
               d.outcome = "threw" =>
                 handlers'[Len(handlers')].call.startingIndex >= d.newCount
      ]_vars

(* C4: at most one callback of the subscription is between its counter     *)
(* comparison and its update of the counter.                               *)
C4_SingleFlight == Len(handlers) <= 1

----------------------------------------------------------------------------
(* Properties of the send commands *)

(* C35: when a run of the send command hands its transaction to the        *)
(* cluster, the index of its payload is the counter the account has at     *)
(* that moment, and no payload submitted before, executed or not, carries  *)
(* that index.                                                             *)
C35_DistinctSubmittedIndices ==
    [][ \A w \in Wallets :
          (sends[w].pc = "built" /\ sends'[w].pc = "submitted") =>
            /\ sends[w].messageCount = Count(account.data)
            /\ \A v \in Wallets \ {w} :
                 sends[v].pc = "submitted" =>
                   sends[v].messageCount # sends[w].messageCount
            /\ \A p \in Tagged(history) :
                 DeclaredIndex(history, p) # sends[w].messageCount ]_vars

(* C36: the payload a send command built for a message, a secret and the   *)
(* counter of the account gives, when its transaction is reconstructed     *)
(* for the same kind with the same secret, exactly one record: its index   *)
(* is that counter, its content the message, its sender the wallet of the  *)
(* send command.                                                           *)
C36_PayloadRoundTrip ==
    (Returned /\ cipher.status = "encrypted"
       /\ cipher.sender = call.sharedSecret) =>
      call.result =
        << [ index |-> Count(account.data) - 1,
             sender |-> cipher.wallet,
             content |-> cipher.message,
             timestamp |-> history[1].blockTime,
             signature |-> history[1].signature ] >>

\* a message of two characters, one of them of two bytes, sent with a key
\* to an account that held 256 messages, has been read back by a callback
\* of the listen command
C36_Witness ==
    /\ Returned
    /\ cipher.status = "encrypted"
    /\ cipher.senderKey.given
    /\ cipher.sender = call.sharedSecret
    /\ cipher.command = "listen"
    /\ cipher.message = <<72, 233>>
    /\ Len(call.result) = 1
    /\ call.result[1].index = 256
    /\ call.result[1].content = <<72, 233>>

(* C38: a message sent without a key is returned with its content to the   *)
(* read command and to the listen command of the same kind run without a   *)
(* key.                                                                    *)
C38_SameDefaultSecret ==
    (Returned /\ cipher.status = "encrypted"
       /\ ~cipher.senderKey.given /\ ~cipher.readerKey.given) =>
      /\ cipher.sender = cipher.reader
      /\ Len(call.result) = 1
      /\ call.result[1].content = cipher.message

----------------------------------------------------------------------------
(* Properties of the account decoding *)

\* the least number of bytes of an account of the kind
MinLength(type) == IF type = "thread" THEN 108 ELSE 80

(* C15: decoding a missing account fails with the not-found error, and     *)
(* decoding account bytes shorter than the minimum of the kind fails with  *)
(* another error; neither gives a record.                                  *)
C15_AccountFailuresDistinct ==
    Decoded =>
      /\ ~account.exists =>
            /\ metadata.status = "threw"
            /\ metadata.error = NotFoundMessage(kind)
      /\ (account.exists /\ Len(account.data) < MinLength(kind)) =>
            /\ metadata.status = "threw"
            /\ metadata.error \in {"Invalid public key input",
                                   "ERR_OUT_OF_RANGE"}

\* a thread account that holds both participants and ends before its
\* counter has been decoded
C15_Witness ==
    /\ Decoded
    /\ kind = "thread"
    /\ account.exists
    /\ Len(account.data) >= 72
    /\ Len(account.data) < MinLength(kind)
    /\ metadata.error = "ERR_OUT_OF_RANGE"

(* C16: decoding thread bytes of at least 108 bytes whose bytes 104..107   *)
(* are n in little endian gives messageCount n, participantA the bytes     *)
(* 8..39 and participantB the bytes 40..71, and decoding them again gives  *)
(* the same record.                                                        *)
C16_ThreadDecode ==
    ( /\ Decoded
      /\ kind = "thread"
      /\ account.exists
      /\ Len(account.data) >= MinLength(kind) ) =>
        /\ metadata.status = "ok"
        /\ \A n \in Counts :
             SubSeq(account.data, 105, 108) = U32LE(n)
               => metadata.messageCount = n
        /\ metadata.participantA = SubSeq(account.data, 9, 40)
        /\ metadata.participantB = SubSeq(account.data, 41, 72)
        /\ DecodeAccount(account, kind) = metadata

\* a thread whose counter takes more than one byte has been decoded
C16_Witness ==
    /\ Decoded
    /\ kind = "thread"
    /\ account = Present(ThreadAccountData(65541))
    /\ metadata.messageCount = 65541
    /\ metadata.participantA # metadata.participantB

(* C17: decoding channel bytes of at least 80 bytes whose name length is   *)
(* l in 0..32 gives the counter held by the bytes 76..79, whatever l is,   *)
(* and the name held by the l bytes from offset 44.                        *)
C17_ChannelCounterAt76 ==
    ( /\ Decoded
      /\ kind = "channel"
      /\ account.exists
      /\ Len(account.data) >= MinLength(kind) ) =>
        /\ metadata.status = "ok"
        /\ \A n \in Counts :
             SubSeq(account.data, 77, 80) = U32LE(n)
               => metadata.messageCount = n
        /\ \A l \in 0..MaxNameLen :
             SubSeq(account.data, 41, 44) = U32LE(l)
               => metadata.channelName = SubSeq(account.data, 45, 44 + l)

\* a channel with a name of 4 bytes and the number 5 right after the name:
\* the counter decoded is the one at 76
C17_Witness ==
    /\ Decoded
    /\ kind = "channel"
    /\ account = Present(PackedChannelAccountData(NameOfLen(4), 5))
    /\ SubSeq(account.data, 49, 52) = U32LE(5)
    /\ metadata.messageCount = 0
    /\ metadata.channelName = NameOfLen(4)

====
